---- MODULE Spec2Model ----
(***************************************************************************)
(* Constrained geometry optimizers of open-acoustic-levitation.            *)
(*                                                                         *)
(* Lengths are fixed-point integers, one unit = 10 micrometres (1e-5 m):   *)
(* 0.005 m = 500, 0.060 m = 6000.  torch.sqrt is the integer square root   *)
(* of the squared distance (the result rounded to the fixed-point grid).   *)
(* Fitness values (well depths, penalties) are integers in one common      *)
(* unit; the Gor'kov well depth max(U) - min(U) of a configuration is a    *)
(* non-negative number the model draws from a small set; one fitness unit  *)
(* is 10 units of the program (CONSTRAINT_PENALTY = 1e6 /m = 1 per length  *)
(* unit, the sentinel -1e10 = -1e9).                                       *)
(***************************************************************************)
EXTENDS Integers, Sequences, FiniteSets, TLC

VARIABLES
    \* ---- check_constraints called on one configuration ----
    cc_pos,      \* the argument `positions`
    cc_out,      \* the returned (valid, penalty)
    cc_pc,       \* "idle", "call" before the call, "ret" after it
    \* ---- the evolutionary drivers ----
    opt,         \* "constrained" (ConstrainedOptimizer), "neural" (GeometryOptimizer), "none"
    rng,         \* the range of the random draws of this run
    generations,                   \* argument `generations`
    population_size,               \* argument `population_size`
    pc,                            \* position in the driver
    gen,                           \* loop variable `gen`
    population,                    \* sequence of configurations
    fol_depth,
    best_ever,
    best_ever_positions,
    generations_since_improvement,
    history,                       \* self.history
    best_geometries,               \* self.best_geometries
    valid_mask,                    \* locals of the loop body, as last assigned
    elite,
    constrained_fitness,           \* the fitness vector of run_constrained_evolutionary
    final_valid,                   \* `valid` computed before the return
    \* ---- _initialize_valid_population, statement by statement ----
    ip_pc,           \* "idle", "loop" inside the for loop, "done" after the return
    ip_size,         \* argument `population_size`
    ip_slot,         \* number of completed iterations of the for loop
    attempts,        \* local `attempts` of the current iteration
    ip_population,   \* local list `population`
    \* ---- _repair_geometry called on one configuration ----
    rg_positions,    \* the caller's tensor `positions`
    rg_pos,          \* the local `pos`, returned by the call
    rg_pc,           \* "idle", "call" before the call, "ret" after it
    \* ---- calculate_well_depth_batch called on one batch ----
    bt_batch,        \* the argument `positions_batch`
    bt_depths,       \* max(U) - min(U) of every configuration of the batch
    bt_out,          \* the returned constrained_depths
    bt_pc,           \* "idle", "call", "ret"
    \* ---- HardShellOptimizer.optimize_from_fol ----
    fol_reference,   \* self.fol_reference, set by the constructor
    hs_pc,           \* "idle", "start", "step", "project", "done"
    hs_rate,         \* the range of the optimizer steps of this run
    iterations,      \* argument `iterations`
    hs_i,            \* loop variable `i`
    hs_positions,    \* the tensor `positions` being optimised
    hs_score,        \* metrics['total_score'] of the current iteration
    best_score,
    best_positions,
    iterations_since_improvement,
    hs_history,      \* self.history of the HardShellOptimizer
    \* ---- the emitter array of an interactive simulator ----
    sim,             \* the simulator class, "none" when unused
    emitter_positions,
    emitter_phases,
    emitter_colors,  \* UltimateSimulator only
    emitter_marks,   \* per sequence, which entries were stored for the marked emitter
    \* ---- PhaseOnlyOptimizer.optimize_phases ----
    ph_pc,           \* "idle", "start", "loop", "done"
    ph_rate,         \* the range of the optimizer steps of this run
    ph_iterations,   \* argument `iterations`
    ph_i,            \* loop variable `i`
    phases,          \* the tensor `phases` being optimised
    ph_score,        \* metrics['total_score'] of the current iteration
    ph_best_score,   \* local `best_score`
    best_phases,
    ph_since_improvement,   \* local `iterations_since_improvement`
    ph_history,      \* self.history of the PhaseOnlyOptimizer
    \* ---- RobustnessTest._get_random_array ----
    ra_pc,           \* "idle", "loop", "done"
    ra_n,            \* self.n_emitters
    ra_i,            \* loop variable `i`
    ra_attempts,     \* local `attempts`
    ra_positions,    \* local list `positions`
    \* ---- gpu_monte_carlo_mega ----
    mc_pc,           \* "idle", "start", "loop", "statistics"
    n_trials,        \* argument `n_trials`
    mc_rng,          \* the random geometries of this run
    mc_idx,          \* number of completed iterations of the inner loop
    mc_well_depths,  \* the result tensor `well_depths`
    mc_writes        \* how often each slot of well_depths was assigned

ccVars == <<cc_pos, cc_out, cc_pc>>

evoInputs == <<opt, rng, generations, population_size>>

evoLocals == <<valid_mask, elite, constrained_fitness>>

evoBest == <<best_ever, best_ever_positions, generations_since_improvement, best_geometries>>

evoVars ==
    <<evoInputs, pc, gen, population, fol_depth, evoBest, history, evoLocals, final_valid>>

ipVars == <<ip_pc, ip_size, ip_slot, attempts, ip_population>>

repairVars == <<rg_positions, rg_pos, rg_pc>>

batchVars == <<bt_batch, bt_depths, bt_out, bt_pc>>

hsBest == <<best_score, best_positions, iterations_since_improvement>>

hsVars ==
    <<fol_reference, hs_pc, hs_rate, iterations, hs_i, hs_positions, hs_score, hsBest, hs_history>>

simVars ==
    <<sim, emitter_positions, emitter_phases, emitter_colors, emitter_marks>>

phBest == <<ph_best_score, best_phases, ph_since_improvement>>

phaseVars == <<ph_pc, ph_rate, ph_iterations, ph_i, phases, ph_score, phBest, ph_history>>

arrayVars == <<ra_pc, ra_n, ra_i, ra_attempts, ra_positions>>

trialVars == <<mc_pc, n_trials, mc_rng, mc_idx, mc_well_depths, mc_writes>>

\* the variables of the functions modelled last
lateVars == <<phaseVars, arrayVars, trialVars>>

\* the variables of the calls and drivers modelled after the evolutionary ones
otherVars == <<repairVars, batchVars, hsVars, simVars, lateVars>>

nonEvoVars == <<ccVars, ipVars, otherVars>>

vars == <<ccVars, evoVars, ipVars, otherVars>>

(***************************************************************************)
(* Program constants (constrained_optimizer.py)                            *)
(***************************************************************************)
\* MIN_SPACING = 0.005 m
MIN_SPACING == 500
\* MAX_SPREAD = 0.060 m
MAX_SPREAD == 6000
\* CONSTRAINT_PENALTY = 1e6 per metre of violation; one fitness unit is 10,
\* so that a violation of one length unit (1e-5 m) costs 1
CONSTRAINT_PENALTY == 1
\* the sentinel -1e10 of the masked fitness, in fitness units
MASKED == -1000000000
\* if generations_since_improvement > 200
EARLY_STOP == 200
\* while attempts < 100
MAX_ATTEMPTS == 100

(***************************************************************************)
(* Bounds of the model                                                     *)
(***************************************************************************)
\* largest n_emitters of the configurations given to check_constraints
MaxCCEmitters == 3
\* largest population_size given to _initialize_valid_population alone
MaxInitPopulation == 2

(***************************************************************************)
(* Arithmetic helpers                                                      *)
(***************************************************************************)
RECURSIVE SqrtIter(_, _, _)
SqrtIter(n, lo, hi) ==
    IF lo >= hi THEN lo
    ELSE LET mid == (lo + hi + 1) \div 2
         IN  IF mid * mid <= n THEN SqrtIter(n, mid, hi)
                               ELSE SqrtIter(n, lo, mid - 1)

\* torch.sqrt on the fixed-point grid (46340 is the largest root of a
\* representable square)
Sqrt(n) == SqrtIter(n, 0, IF n < 46340 THEN n ELSE 46340)

\* torch.sqrt(torch.sum((p - q)**2))
Dist(p, q) == Sqrt((p[1] - q[1]) * (p[1] - q[1]) + (p[2] - q[2]) * (p[2] - q[2]))

\* torch.sqrt(torch.sum(pos**2, dim=1))[i]
Norm(p) == Sqrt(p[1] * p[1] + p[2] * p[2])

RECURSIVE MaxNorm(_, _)
\* distances_from_center.max() over rows i..Len(pos)
MaxNorm(pos, i) ==
    IF i > Len(pos) THEN 0
    ELSE LET rest == MaxNorm(pos, i + 1)
         IN  IF Norm(pos[i]) > rest THEN Norm(pos[i]) ELSE rest

(***************************************************************************)
(* ConstrainedOptimizer.check_constraints, one configuration (batch of 1)  *)
(***************************************************************************)
RECURSIVE SpacingPenalty_dist(_, _, _)
\* the penalty written `CONSTRAINT_PENALTY * dist`
SpacingPenalty_dist(pos, i, j) ==
    IF i > Len(pos) THEN 0
    ELSE IF j > Len(pos) THEN SpacingPenalty_dist(pos, i + 1, i + 2)
    ELSE LET dist == Dist(pos[i], pos[j])
         IN  (IF dist < MIN_SPACING THEN CONSTRAINT_PENALTY * dist ELSE 0)
             + SpacingPenalty_dist(pos, i, j + 1)

RECURSIVE SpacingPenalty(_, _, _)
\* the double loop `for i ... for j in range(i + 1, n_emitters)`
SpacingPenalty(pos, i, j) ==
    IF i > Len(pos) THEN 0
    ELSE IF j > Len(pos) THEN SpacingPenalty(pos, i + 1, i + 2)
    ELSE LET dist == Dist(pos[i], pos[j])
         IN  (IF dist < MIN_SPACING
                 THEN CONSTRAINT_PENALTY * (MIN_SPACING - dist)
                 ELSE 0)
             + SpacingPenalty(pos, i, j + 1)

\* the spread taken from the first emitter instead of the maximum
SpreadPenalty_first(pos) ==
    LET max_dist == Norm(pos[1])
    IN  IF max_dist > MAX_SPREAD
           THEN CONSTRAINT_PENALTY * (max_dist - MAX_SPREAD)
           ELSE 0

SpreadPenalty(pos) ==
    LET max_dist == MaxNorm(pos, 1)
    IN  IF max_dist > MAX_SPREAD
           THEN CONSTRAINT_PENALTY * (max_dist - MAX_SPREAD)
           ELSE 0

check_constraints(pos) ==
    LET total_penalty == SpacingPenalty(pos, 1, 2) + SpreadPenalty(pos)
    IN  [valid |-> (total_penalty = 0), penalty |-> total_penalty]

(***************************************************************************)
(* ConstrainedOptimizer._repair_geometry                                   *)
(***************************************************************************)
\* a / b rounded to the nearest grid value (b > 0)
RoundDiv(a, b) ==
    IF a >= 0 THEN (2 * a + b) \div (2 * b)
              ELSE 0 - ((2 * (0 - a) + b) \div (2 * b))

\* for iteration in range(10)
\* one pass more
REPAIR_PASSES_more == 10 + 1

REPAIR_PASSES == 10

\* direction * push = (pos[i] - pos[j]) / (dist + 1e-6) * (MIN_SPACING - dist) / 2
\* for one coordinate difference d; 1e-6 m is 1/10 of a length unit
PushOf(d, dist) == RoundDiv(d * (MIN_SPACING - dist) * 10, 20 * dist + 2)

\* the body of the pair loop: pos[i] and pos[j] are moved apart in place
PushApart(pos, i, j) ==
    LET dist == Dist(pos[i], pos[j])
        px   == PushOf(pos[i][1] - pos[j][1], dist)
        py   == PushOf(pos[i][2] - pos[j][2], dist)
    IN  [pos EXCEPT ![i] = <<pos[i][1] + px, pos[i][2] + py>>,
                    ![j] = <<pos[j][1] - px, pos[j][2] - py>>]

RECURSIVE RepairPass(_, _, _, _)
\* one pass of the pair loops, from pair (i, j) on
RepairPass(pos, fixed, i, j) ==
    IF i > Len(pos) THEN [pos |-> pos, fixed |-> fixed]
    ELSE IF j > Len(pos) THEN RepairPass(pos, fixed, i + 1, i + 2)
    ELSE IF Dist(pos[i], pos[j]) < MIN_SPACING
            THEN RepairPass(PushApart(pos, i, j), FALSE, i, j + 1)
            ELSE RepairPass(pos, fixed, i, j + 1)

RECURSIVE RepairLoop(_, _)
RepairLoop(pos, iteration) ==
    IF iteration >= REPAIR_PASSES THEN pos
    ELSE LET r == RepairPass(pos, TRUE, 1, 2)
         IN  IF r.fixed THEN r.pos ELSE RepairLoop(r.pos, iteration + 1)

RECURSIVE RepairTrace(_, _)
\* the passes of `for iteration in range(10)` that are run, each with the
\* configuration it starts from and the one it leaves
RepairTrace(pos, iteration) ==
    IF iteration >= REPAIR_PASSES THEN <<>>
    ELSE LET r == RepairPass(pos, TRUE, 1, 2)
         IN  IF r.fixed THEN <<[start |-> pos, end |-> r.pos]>>
             ELSE <<[start |-> pos, end |-> r.pos]>> \o RepairTrace(r.pos, iteration + 1)

\* the rescaling applied whatever the largest distance is
FixSpread_always(pos) ==
    LET m == MaxNorm(pos, 1)
    IN  IF m > 0
           THEN [i \in 1..Len(pos) |->
                    <<RoundDiv(pos[i][1] * MAX_SPREAD, m),
                      RoundDiv(pos[i][2] * MAX_SPREAD, m)>>]
           ELSE pos

\* if distances.max() > MAX_SPREAD: pos = pos * (MAX_SPREAD / distances.max())
FixSpread(pos) ==
    LET m == MaxNorm(pos, 1)
    IN  IF m > MAX_SPREAD
           THEN [i \in 1..Len(pos) |->
                    <<RoundDiv(pos[i][1] * MAX_SPREAD, m),
                      RoundDiv(pos[i][2] * MAX_SPREAD, m)>>]
           ELSE pos

_repair_geometry(positions) == FixSpread(RepairLoop(positions, 0))

(***************************************************************************)
(* Bounds of the evolutionary model                                        *)
(***************************************************************************)
\* n_emitters of the optimizers
NEmitters == 3
\* largest population_size
MaxPopulation == 5
\* `generations` of the runs without mutation
MaxGenerations == 3
\* `generations` of the long runs
LongGenerations == 203

(***************************************************************************)
(* _get_fol_geometry: centre and the ring of radius 2.5 wavelengths        *)
(* (2.5 * 343 / 40000 m = 2143.75 units), truncated to n_emitters rows     *)
(***************************************************************************)
FolRing ==
    << <<0, 0>>, <<2144, 0>>, <<1072, 1857>>, <<-1072, 1857>>,
       <<-2144, 0>>, <<-1072, -1857>>, <<1072, -1857>> >>

_get_fol_geometry == SubSeq(FolRing, 1, NEmitters)

AddTo(pos, delta) ==
    [i \in 1..Len(pos) |-> <<pos[i][1] + delta[i][1], pos[i][2] + delta[i][2]>>]

(***************************************************************************)
(* The random draws.  rng names the range the draws of one run come from:  *)
(*   "rich"  valid and invalid configurations, mutation, invalid fallback  *)
(*   "calm"  valid and invalid configurations, no mutation                 *)
(*   "stuck" every random configuration and every fallback is invalid      *)
(*   "still" one valid random configuration, no mutation, low well depths, *)
(*           valid fallback                                                *)
(*   "mixed" valid and invalid configurations, valid and invalid           *)
(*           fallbacks, no mutation                                        *)
(*   "flat"  valid and invalid configurations, no mutation, low well       *)
(*           depths                                                        *)
(***************************************************************************)
\* torch.rand(n_emitters, 2) * 0.06 - 0.03: a valid and an invalid draw
RandSpaced == [i \in 1..NEmitters |-> <<700 * i - 3000, 1000>>]

RandCrowded == [i \in 1..NEmitters |-> <<100 * i, 0>>]

RandAttempts(r) ==
    CASE r \in {"rich", "calm", "mixed", "flat"} -> {RandSpaced, RandCrowded}
      [] r = "stuck" -> {RandCrowded}
      [] r = "still" -> {RandSpaced}

\* torch.randn_like(fol) * 0.002 (each component below 6 sigma = 1200): a
\* small noise, and a noise that moves the first and the last emitter towards
\* each other until they are just less than MIN_SPACING apart
NoiseSmall == [i \in 1..NEmitters |-> <<10 * i, -20>>]

NoiseTowards ==
    LET last == _get_fol_geometry[NEmitters]
    IN  [i \in 1..NEmitters |->
            IF i = 1 THEN <<(9 * last[1]) \div 20, (9 * last[2]) \div 20>>
            ELSE IF i = NEmitters
                 THEN <<MIN_SPACING - 2 - ((11 * last[1]) \div 20),
                        0 - ((11 * last[2]) \div 20)>>
                 ELSE <<0, 0>>]

FallbackNoise(r) ==
    CASE r \in {"rich", "calm", "stuck", "flat"} -> {NoiseTowards}
      [] r = "still" -> {NoiseSmall}
      [] r = "mixed" -> {NoiseSmall, NoiseTowards}

\* U.max() - U.min() of one configuration
WellDepths(r) ==
    CASE r \in {"rich", "mixed"} -> {0, 2}
      [] r = "calm" -> {0, 2, 3}
      [] OTHER      -> {0}

\* the well depth of the Flower of Life geometry
FolWellDepth == 1

\* mutation * mutation_mask: no mutation, or emitter 2 moved by 4 mm
NoMutation == [i \in 1..NEmitters |-> <<0, 0>>]

MutateSecond == [i \in 1..NEmitters |-> IF i = 2 THEN <<-400, 0>> ELSE <<0, 0>>]

Mutations(r) == IF r = "rich" THEN {NoMutation, MutateSecond} ELSE {NoMutation}

\* alpha = torch.rand(1), as a numerator over AlphaDen
AlphaDen == 2

Alphas == {0, 1}

(***************************************************************************)
(* _initialize_valid_population, as the set of its possible results        *)
(***************************************************************************)
\* what one slot can receive: the first valid attempt, or after 100 invalid
\* attempts the fallback fol + noise
SlotResults(r) ==
    { a \in RandAttempts(r) : check_constraints(a).valid }
    \cup (IF \E a \in RandAttempts(r) : ~check_constraints(a).valid
             THEN { AddTo(_get_fol_geometry, z) : z \in FallbackNoise(r) }
             ELSE {})

InitialPopulations(P, r) == [1..P -> SlotResults(r)]

(***************************************************************************)
(* Helpers of the evolutionary drivers                                     *)
(***************************************************************************)
Indices(f) == [i \in 1..Len(f) |-> i]

\* tensor.argmax(): the index of the first maximal value
ArgMax(f) ==
    CHOOSE i \in 1..Len(f) :
        /\ \A j \in 1..Len(f) : f[j] <= f[i]
        /\ \A j \in 1..(i - 1) : f[j] < f[i]

\* tensor.topk(k).indices: k indices of largest values, largest first; the
\* order among equal values is not specified
TopK(f, k) ==
    { s \in [1..k -> 1..Len(f)] :
        /\ \A a, b \in 1..k : a < b => (s[a] # s[b] /\ f[s[a]] >= f[s[b]])
        /\ \A j \in 1..Len(f) :
              (\A a \in 1..k : s[a] # j) => (\A a \in 1..k : f[j] <= f[s[a]]) }

\* torch.where(valid_mask)[0]
Where(mask) == SelectSeq(Indices(mask), LAMBDA i : mask[i])

RECURSIVE SumSeq(_, _)
SumSeq(f, i) == IF i > Len(f) THEN 0 ELSE f[i] + SumSeq(f, i + 1)

Count(mask) == Len(Where(mask))

\* fitness[valid_mask].mean(), rounded to a fitness unit
MeanOf(fitness, mask) ==
    SumSeq([i \in 1..Len(fitness) |-> IF mask[i] THEN fitness[i] ELSE 0], 1)
        \div Count(mask)

\* the masking left out
MaskInvalid_none(fitness, mask) == fitness

\* valid_fitness = fitness.clone(); valid_fitness[~valid_mask] = -1e10
MaskInvalid(fitness, mask) ==
    [i \in 1..Len(fitness) |-> IF mask[i] THEN fitness[i] ELSE MASKED]

Members(pop) == { pop[i] : i \in 1..Len(pop) }

\* the loop `for b in range(batch_size)` of calculate_well_depth_batch:
\* well_depths[b] = max(U) - min(U) of configuration b, a function of the
\* configuration alone (_calculate_potential draws nothing at random)
WellDepthsOf(positions_batch, U) ==
    [b \in 1..Len(positions_batch) |-> U[positions_batch[b]]]

\* check_constraints of every row of a batch (the loop of lines 86-108, the
\* loop of lines 220-225). The result is a function of the configuration
\* alone, so every distinct configuration of the batch is checked once
Checked(positions_batch) ==
    { <<c, check_constraints(c)>> :
        c \in { positions_batch[b] : b \in 1..Len(positions_batch) } }

CheckedOf(checked, c) == (CHOOSE x \in checked : x[1] = c)[2]

\* the penalty of the first configuration given to every row
Penalties_first(positions_batch) ==
    [b \in 1..Len(positions_batch) |-> check_constraints(positions_batch[1]).penalty]

\* check_constraints on a batch: the vector total_penalty
Penalties(positions_batch) ==
    LET checked == Checked(positions_batch)
    IN  [b \in 1..Len(positions_batch) |->
            CheckedOf(checked, positions_batch[b]).penalty]

\* ConstrainedOptimizer.calculate_well_depth_batch: constrained_depths =
\* well_depths - penalties, well_depths[b] being max(U) - min(U) of configuration b
calculate_well_depth_batch(well_depths, penalties) ==
    [b \in 1..Len(well_depths) |-> well_depths[b] - penalties[b]]

\* child = alpha * parent1 + (1 - alpha) * parent2
Blend(parent1, parent2, a) ==
    [i \in 1..Len(parent1) |->
        <<RoundDiv(a * parent1[i][1] + (AlphaDen - a) * parent2[i][1], AlphaDen),
          RoundDiv(a * parent1[i][2] + (AlphaDen - a) * parent2[i][2], AlphaDen)>>]

\* n_elite = population_size // 5
NElite(P) == P \div 5

(***************************************************************************)
(* One generation of run_constrained_evolutionary, lines 216-287:          *)
(* evaluation, best tracking, history, selection                           *)
(***************************************************************************)
\* every individual taken as valid, without check_constraints
ValidMask_unchecked(pop) == [i \in 1..Len(pop) |-> TRUE]

\* valid_mask: check_constraints(population[i]) for every i (lines 220-225)
ValidMask(pop) ==
    LET checked == Checked(pop)
    IN  [i \in 1..Len(pop) |-> CheckedOf(checked, pop[i]).valid]

\* the comparison with best_ever left out
IsNewBest_valid(best_is_valid, best_depth, best) == best_is_valid

\* if best_is_valid and best_depth > best_ever (line 235)
IsNewBest(best_is_valid, best_depth, best) == best_is_valid /\ best_depth > best

\* the locals of the loop body for the fitness vector of the population
CEval(fitness, mask) ==
    LET any    == \E i \in 1..Len(mask) : mask[i]
        bidx   == IF any THEN ArgMax(MaskInvalid(fitness, mask)) ELSE 0
        bdepth == IF any THEN fitness[bidx] ELSE 0
        bvalid == any /\ mask[bidx]
    IN  [fitness |-> fitness, valid_mask |-> mask, any |-> any,
         best_idx |-> bidx, best_depth |-> bdepth,
         improved |-> (any /\ IsNewBest(bvalid, bdepth, best_ever))]

\* lines 227-270
CTrack(e) ==
    /\ IF e.improved
          THEN /\ best_ever' = e.best_depth
               /\ best_ever_positions' = population[e.best_idx]
               /\ generations_since_improvement' = 0
               /\ best_geometries' = Append(best_geometries,
                     [generation |-> gen, well_depth |-> e.best_depth,
                      positions |-> population[e.best_idx],
                      improvement_vs_fol |->
                          ((e.best_depth - fol_depth) * 100) \div fol_depth,
                      valid |-> TRUE])
          ELSE /\ generations_since_improvement' = generations_since_improvement + 1
               /\ UNCHANGED <<best_ever, best_ever_positions, best_geometries>>
    /\ valid_mask' = e.valid_mask
    /\ constrained_fitness' = e.fitness
    /\ history' = Append(history,
          [generation |-> gen,
           best_fitness |-> IF e.any THEN e.best_depth ELSE 0,
           mean_fitness |-> IF e.any THEN MeanOf(e.fitness, e.valid_mask) ELSE 0,
           best_ever |-> best_ever',
           valid_count |-> Count(e.valid_mask)])

\* the top n_elite of the masked fitness whatever the number of valid ones
CEliteIndices_always(e) ==
    TopK(MaskInvalid(e.fitness, e.valid_mask), NElite(population_size))

\* lines 273-285: the indices of the elite, the empty sequence when
\* torch.where finds no valid individual
CEliteIndices(e) ==
    IF Count(e.valid_mask) >= NElite(population_size)
       THEN TopK(MaskInvalid(e.fitness, e.valid_mask), NElite(population_size))
       ELSE {Where(e.valid_mask)}

\* the re-initialisation branch is taken
CReinit(e) ==
    /\ Count(e.valid_mask) < NElite(population_size)
    /\ Len(Where(e.valid_mask)) = 0

\* the loop variable advanced by two
NextGeneration_skip ==
    /\ gen' = gen + 2
    /\ pc' = IF gen + 2 < generations THEN "evaluate" ELSE "finish"

\* the loop goes on to generation gen + 1, or is exhausted
NextGeneration ==
    /\ gen' = gen + 1
    /\ pc' = IF gen + 1 < generations THEN "evaluate" ELSE "finish"

CStart ==
    /\ pc = "start"
    /\ opt = "constrained"
    /\ population' \in InitialPopulations(population_size, rng)
    /\ fol_depth' = FolWellDepth - check_constraints(_get_fol_geometry).penalty
    /\ best_ever' = fol_depth'
    /\ best_ever_positions' = _get_fol_geometry
    /\ generations_since_improvement' = 0
    /\ gen' = 0
    /\ pc' = IF generations > 0 THEN "evaluate" ELSE "finish"
    /\ UNCHANGED <<nonEvoVars, evoInputs, history, best_geometries, evoLocals, final_valid>>

CEvaluateSelect ==
    /\ pc = "evaluate"
    /\ opt = "constrained"
    /\ \E mask \in {ValidMask(population)}, pen \in {Penalties(population)} :
       \E U \in [Members(population) -> WellDepths(rng)] :
       \E e \in {CEval(calculate_well_depth_batch(WellDepthsOf(population, U), pen), mask)} :
          /\ ~CReinit(e)
          /\ CTrack(e)
          /\ \E elite_indices \in CEliteIndices(e) :
                elite' = [k \in 1..Len(elite_indices) |->
                             population[elite_indices[k]]]
    /\ pc' = "reproduce"
    /\ UNCHANGED <<nonEvoVars, evoInputs, gen, population, fol_depth, final_valid>>

CEvaluateReinit ==
    /\ pc = "evaluate"
    /\ opt = "constrained"
    /\ \E mask \in {ValidMask(population)}, pen \in {Penalties(population)} :
       \E U \in [Members(population) -> WellDepths(rng)] :
       \E e \in {CEval(calculate_well_depth_batch(WellDepthsOf(population, U), pen), mask)} :
          /\ CReinit(e)
          /\ CTrack(e)
    /\ population' \in InitialPopulations(population_size, rng)
    /\ NextGeneration
    /\ UNCHANGED <<nonEvoVars, evoInputs, fol_depth, elite, final_valid>>

(***************************************************************************)
(* Reproduction and early stopping, lines 287-319                          *)
(***************************************************************************)
\* the children concatenated before the elite
NewPopulation_childrenFirst(elite_block, children) == children \o elite_block

\* torch.cat(new_population, dim=0): new_population holds the elite block,
\* appended first (line 291), then the children
NewPopulation(elite_block, children) == elite_block \o children

\* the children the loop body can append for this elite
CChildren ==
    { _repair_geometry(AddTo(Blend(elite[p1], elite[p2], a), m)) :
        p1 \in 1..Len(elite), p2 \in 1..Len(elite),
        a \in Alphas, m \in Mutations(rng) }

\* children appended while len(torch.cat(new_population)) < population_size
CNeeded ==
    IF Len(elite) < population_size THEN population_size - Len(elite) ELSE 0

\* lines 316-319, at the end of the loop body
EarlyStopping ==
    IF generations_since_improvement > EARLY_STOP
       THEN pc' = "finish" /\ gen' = gen
       ELSE NextGeneration

CReproduce ==
    /\ pc = "reproduce"
    /\ opt = "constrained"
    /\ (CNeeded > 0 => Len(elite) > 0)
    /\ \E kids \in [1..CNeeded -> CChildren] :
          population' = SubSeq(NewPopulation(elite, kids), 1, population_size)
    /\ EarlyStopping
    /\ UNCHANGED <<nonEvoVars, evoInputs, fol_depth, evoBest, history, evoLocals,
                   final_valid>>

\* torch.randint(0, len(elite), (1,)) raises for an empty elite
CReproduceCrash ==
    /\ pc = "reproduce"
    /\ opt = "constrained"
    /\ CNeeded > 0
    /\ Len(elite) = 0
    /\ pc' = "error"
    /\ UNCHANGED <<nonEvoVars, evoInputs, gen, population, fol_depth, evoBest, history,
                   evoLocals, final_valid>>

\* lines 321-343
CFinish ==
    /\ pc = "finish"
    /\ opt = "constrained"
    /\ final_valid' = check_constraints(best_ever_positions).valid
    /\ pc' = "done"
    /\ UNCHANGED <<nonEvoVars, evoInputs, gen, population, fol_depth, evoBest, history,
                   evoLocals>>

(***************************************************************************)
(* GeometryOptimizer.run_evolutionary_optimization (neural_optimizer.py)   *)
(***************************************************************************)
\* lines 151-166; the population is torch.rand(...) * 0.08 - 0.04, no constraint
NStart ==
    /\ pc = "start"
    /\ opt = "neural"
    /\ population' \in [1..population_size -> RandAttempts(rng)]
    /\ fol_depth' = FolWellDepth
    /\ best_ever' = fol_depth'
    /\ best_ever_positions' = _get_fol_geometry
    /\ generations_since_improvement' = 0
    /\ gen' = 0
    /\ pc' = IF generations > 0 THEN "evaluate" ELSE "finish"
    /\ UNCHANGED <<nonEvoVars, evoInputs, history, best_geometries, evoLocals, final_valid>>

\* the comparison written `!=`
NIsNewBest_ne(best_depth, best) == best_depth # best

\* if best_depth > best_ever (line 177)
NIsNewBest(best_depth, best) == best_depth > best

\* lines 172-208 for the fitness vector of this generation
NTrack(fitness) ==
    LET bidx   == ArgMax(fitness)
        bdepth == fitness[bidx]
    IN  /\ IF NIsNewBest(bdepth, best_ever)
              THEN /\ best_ever' = bdepth
                   /\ best_ever_positions' = population[bidx]
                   /\ generations_since_improvement' = 0
                   /\ best_geometries' = Append(best_geometries,
                         [generation |-> gen, well_depth |-> bdepth,
                          positions |-> population[bidx],
                          improvement_vs_fol |->
                              ((bdepth - fol_depth) * 100) \div fol_depth])
              ELSE /\ generations_since_improvement' =
                          generations_since_improvement + 1
                   /\ UNCHANGED <<best_ever, best_ever_positions, best_geometries>>
        /\ history' = Append(history,
              [generation |-> gen,
               best_fitness |-> bdepth,
               mean_fitness |-> SumSeq(fitness, 1) \div Len(fitness),
               best_ever |-> best_ever'])

\* lines 168-213
NEvaluate ==
    /\ pc = "evaluate"
    /\ opt = "neural"
    /\ \E U \in [Members(population) -> WellDepths(rng)] :
       \E fitness \in {WellDepthsOf(population, U)} :
          /\ NTrack(fitness)
          /\ \E elite_indices \in TopK(fitness, NElite(population_size)) :
                elite' = [k \in 1..Len(elite_indices) |->
                             population[elite_indices[k]]]
    /\ pc' = "reproduce"
    /\ UNCHANGED <<nonEvoVars, evoInputs, gen, population, fol_depth, valid_mask,
                   constrained_fitness,
                   final_valid>>

\* the children of lines 222-237: blend and mutation, no repair
NChildren ==
    { AddTo(Blend(elite[p1], elite[p2], a), m) :
        p1 \in 1..Len(elite), p2 \in 1..Len(elite),
        a \in Alphas, m \in Mutations(rng) }

\* the loop written `for _ in range(population_size)`
NNeeded_all == population_size

\* for _ in range(population_size - n_elite)
NNeeded == population_size - NElite(population_size)

\* lines 215-244
NReproduce ==
    /\ pc = "reproduce"
    /\ opt = "neural"
    /\ (NNeeded > 0 => Len(elite) > 0)
    /\ \E kids \in [1..NNeeded -> NChildren] :
          population' = NewPopulation(elite, kids)
    /\ EarlyStopping
    /\ UNCHANGED <<nonEvoVars, evoInputs, fol_depth, evoBest, history, evoLocals,
                   final_valid>>

\* torch.randint(0, n_elite, (1,)) raises for n_elite = 0
NReproduceCrash ==
    /\ pc = "reproduce"
    /\ opt = "neural"
    /\ NNeeded > 0
    /\ Len(elite) = 0
    /\ pc' = "error"
    /\ UNCHANGED <<nonEvoVars, evoInputs, gen, population, fol_depth, evoBest, history,
                   evoLocals, final_valid>>

\* lines 246-264
NFinish ==
    /\ pc = "finish"
    /\ opt = "neural"
    /\ pc' = "done"
    /\ UNCHANGED <<nonEvoVars, evoInputs, gen, population, fol_depth, evoBest, history,
                   evoLocals, final_valid>>

(***************************************************************************)
(* Specifications                                                          *)
(***************************************************************************)
NoResult == [valid |-> FALSE, penalty |-> -1]

CCIdle ==
    /\ cc_pos = <<>>
    /\ cc_out = NoResult
    /\ cc_pc = "idle"

RepairIdle ==
    /\ rg_positions = <<>>
    /\ rg_pos = <<>>
    /\ rg_pc = "idle"

BatchIdle ==
    /\ bt_batch = <<>>
    /\ bt_depths = <<>>
    /\ bt_out = <<>>
    /\ bt_pc = "idle"

\* a HardShellOptimizer before optimize_from_fol: self.history = []
HardShellFresh ==
    /\ hs_i = 0
    /\ hs_positions = <<>>
    /\ hs_score = 0
    /\ best_score = 0
    /\ best_positions = <<>>
    /\ iterations_since_improvement = 0
    /\ hs_history = <<>>

HardShellIdle ==
    /\ fol_reference = <<>>
    /\ hs_pc = "idle"
    /\ hs_rate = "none"
    /\ iterations = 0
    /\ HardShellFresh

SimIdle ==
    /\ sim = "none"
    /\ emitter_positions = <<>>
    /\ emitter_phases = <<>>
    /\ emitter_colors = <<>>
    /\ emitter_marks = [positions |-> <<>>, phases |-> <<>>, colors |-> <<>>]

\* a PhaseOnlyOptimizer before optimize_phases: self.history = []
PhaseFresh ==
    /\ ph_i = 0
    /\ phases = <<>>
    /\ ph_score = 0
    /\ ph_best_score = 0
    /\ best_phases = <<>>
    /\ ph_since_improvement = 0
    /\ ph_history = <<>>

PhaseIdle ==
    /\ ph_pc = "idle"
    /\ ph_rate = "none"
    /\ ph_iterations = 0
    /\ PhaseFresh

ArrayIdle ==
    /\ ra_pc = "idle"
    /\ ra_n = 0
    /\ ra_i = 0
    /\ ra_attempts = 0
    /\ ra_positions = <<>>

TrialIdle ==
    /\ mc_pc = "idle"
    /\ n_trials = 0
    /\ mc_rng = "none"
    /\ mc_idx = 0
    /\ mc_well_depths = <<>>
    /\ mc_writes = <<>>

LateIdle == PhaseIdle /\ ArrayIdle /\ TrialIdle

OthersIdle == RepairIdle /\ BatchIdle /\ HardShellIdle /\ SimIdle /\ LateIdle

\* the state of an optimizer before a run: self.history = [], self.best_geometries = []
EvoFresh ==
    /\ gen = 0
    /\ population = <<>>
    /\ fol_depth = 0
    /\ best_ever = 0
    /\ best_ever_positions = <<>>
    /\ generations_since_improvement = 0
    /\ history = <<>>
    /\ best_geometries = <<>>
    /\ valid_mask = <<>>
    /\ elite = <<>>
    /\ constrained_fitness = <<>>
    /\ final_valid = FALSE

EvoIdle ==
    /\ opt = "none"
    /\ rng = "none"
    /\ generations = 0
    /\ population_size = 0
    /\ pc = "idle"
    /\ EvoFresh

\* population sizes: below 5 the elite is empty
PopulationSizes == {4, MaxPopulation}

\* a population_size with population_size // 5 >= 2, so that fewer valid
\* individuals than elites and at least one valid individual can occur
WidePopulation == 10

\* the runs: <<optimizer, range of the draws, generations, population_size>>
Runs ==
    ({"constrained", "neural"} \X {"rich"} \X {0, 1} \X PopulationSizes)
    \cup ({"constrained", "neural"} \X {"calm"} \X {MaxGenerations} \X {MaxPopulation})
    \cup { <<"constrained", "stuck", LongGenerations, MaxPopulation>>,
           <<"constrained", "still", LongGenerations, MaxPopulation>>,
           <<"neural", "still", LongGenerations, MaxPopulation>>,
           <<"constrained", "mixed", 1, MaxPopulation>>,
           <<"constrained", "flat", 1, WidePopulation>> }

IPIdle ==
    /\ ip_pc = "idle"
    /\ ip_size = 0
    /\ ip_slot = 0
    /\ attempts = 0
    /\ ip_population = <<>>

Init ==
    /\ CCIdle
    /\ IPIdle
    /\ OthersIdle
    /\ \E run \in Runs :
          /\ opt = run[1]
          /\ rng = run[2]
          /\ generations = run[3]
          /\ population_size = run[4]
    /\ pc = "start"
    /\ EvoFresh

Next ==
    \/ CStart
    \/ CEvaluateSelect
    \/ CEvaluateReinit
    \/ CReproduce
    \/ CReproduceCrash
    \/ CFinish
    \/ NStart
    \/ NEvaluate
    \/ NReproduce
    \/ NReproduceCrash
    \/ NFinish

Spec == Init /\ [][Next]_vars

(***************************************************************************)
(* check_constraints as a function of one configuration                    *)
(***************************************************************************)
CCPoints ==
    { <<0, 0>>, <<300, 0>>, <<300, 400>>, <<499, 0>>, <<800, 0>>,
      <<6000, 0>>, <<0, 6100>>, <<-4000, -4500>> }

CCInputs == UNION { [1..n -> CCPoints] : n \in 1..MaxCCEmitters }

CCInit ==
    /\ cc_pos \in CCInputs
    /\ cc_out = NoResult
    /\ cc_pc = "call"
    /\ EvoIdle
    /\ IPIdle
    /\ OthersIdle

CheckConstraints ==
    /\ cc_pc = "call"
    /\ cc_out' = check_constraints(cc_pos)
    /\ cc_pc' = "ret"
    /\ UNCHANGED <<cc_pos, evoVars, ipVars, otherVars>>

CCNext == CheckConstraints

SpecCC == CCInit /\ [][CCNext]_vars

(***************************************************************************)
(* _initialize_valid_population, statement by statement (lines 345-370)    *)
(***************************************************************************)
\* the range of the random draws of the calls made alone
IPRng == "rich"

\* the test written `attempts > 100`
NeedsFallback_gt(n) == n > MAX_ATTEMPTS

\* if attempts >= 100 (line 364)
NeedsFallback(n) == n >= MAX_ATTEMPTS

\* lines 364-368 for the list pop and the counter n: the possible lists
AfterWhile(pop, n) ==
    IF NeedsFallback(n)
       THEN { Append(pop, AddTo(_get_fol_geometry, noise)) :
                noise \in FallbackNoise(IPRng) }
       ELSE {pop}

\* is_valid, _ = self.check_constraints(pos) (line 357) over the draws of
\* line 353: those that pass and those that fail
IPValidDraws == { pos \in RandAttempts(IPRng) : check_constraints(pos).valid }

IPInvalidDraws == RandAttempts(IPRng) \ IPValidDraws

IPInit ==
    /\ CCIdle
    /\ EvoIdle
    /\ OthersIdle
    /\ ip_pc = "loop"
    /\ ip_size \in 0..MaxInitPopulation
    /\ ip_slot = 0
    /\ attempts = 0
    /\ ip_population = <<>>

\* an iteration of the while loop that draws a valid configuration: it is
\* appended, the loop is left by break, line 364 is passed and the next
\* iteration of the for loop sets attempts = 0
IPAttemptValid ==
    /\ ip_pc = "loop"
    /\ ip_slot < ip_size
    /\ attempts < MAX_ATTEMPTS
    /\ \E pos \in IPValidDraws :
          ip_population' \in AfterWhile(Append(ip_population, pos), attempts)
    /\ ip_slot' = ip_slot + 1
    /\ attempts' = 0
    /\ UNCHANGED <<ccVars, evoVars, otherVars, ip_pc, ip_size>>

\* an iteration of the while loop that draws an invalid configuration
IPAttemptInvalid ==
    /\ ip_pc = "loop"
    /\ ip_slot < ip_size
    /\ attempts < MAX_ATTEMPTS
    /\ IPInvalidDraws # {}
    /\ attempts' = attempts + 1
    /\ UNCHANGED <<ccVars, evoVars, otherVars, ip_pc, ip_size, ip_slot, ip_population>>

\* the while loop ends because attempts < 100 is false: lines 364-368, then
\* the next iteration of the for loop
IPFallback ==
    /\ ip_pc = "loop"
    /\ ip_slot < ip_size
    /\ ~(attempts < MAX_ATTEMPTS)
    /\ ip_population' \in AfterWhile(ip_population, attempts)
    /\ ip_slot' = ip_slot + 1
    /\ attempts' = 0
    /\ UNCHANGED <<ccVars, evoVars, otherVars, ip_pc, ip_size>>

\* return torch.cat(population, dim=0)
IPReturn ==
    /\ ip_pc = "loop"
    /\ ip_slot = ip_size
    /\ ip_pc' = "done"
    /\ UNCHANGED <<ccVars, evoVars, otherVars, ip_size, ip_slot, attempts,
                   ip_population>>

IPNext == IPAttemptValid \/ IPAttemptInvalid \/ IPFallback \/ IPReturn

\* the statements of a sequential function are executed one after the other
SpecInitPop == IPInit /\ [][IPNext]_vars /\ WF_vars(IPNext)

(***************************************************************************)
(* _repair_geometry called on one configuration                            *)
(***************************************************************************)
\* largest n_emitters of the configurations given to _repair_geometry
MaxRepairEmitters == 3

\* emitter positions: coincident and close points, points exactly
\* MIN_SPACING apart and exactly MAX_SPREAD from the centre, points beyond
\* MAX_SPREAD
RepairPoints ==
    { <<0, 0>>, <<300, 0>>, <<500, 0>>, <<0, 400>>, <<6000, 0>>,
      <<5900, 1500>>, <<-4000, -4500>>, <<0, -7000>> }

RepairInputs == UNION { [1..n -> RepairPoints] : n \in 1..MaxRepairEmitters }

\* pos = positions.clone() (line 374): the writes pos[i] = ... of the pair
\* loop go to the clone `pushed`, the caller's tensor keeps its value
CallerTensor(positions, pushed) == positions

RGInit ==
    /\ CCIdle
    /\ EvoIdle
    /\ IPIdle
    /\ BatchIdle
    /\ HardShellIdle
    /\ SimIdle
    /\ LateIdle
    /\ rg_positions \in RepairInputs
    /\ rg_pos = <<>>
    /\ rg_pc = "call"

RepairGeometry ==
    /\ rg_pc = "call"
    /\ rg_pos' = _repair_geometry(rg_positions)
    /\ rg_positions' = CallerTensor(rg_positions, RepairLoop(rg_positions, 0))
    /\ rg_pc' = "ret"
    /\ UNCHANGED <<ccVars, evoVars, ipVars, lateVars, batchVars, hsVars, simVars>>

RGNext == RepairGeometry

SpecRepair == RGInit /\ [][RGNext]_vars

(***************************************************************************)
(* calculate_well_depth_batch called on one batch                          *)
(***************************************************************************)
\* largest batch_size of the batches given to calculate_well_depth_batch
MaxBatch == 3

\* configurations of a batch: a valid one, one with close pairs, one with a
\* pair just below MIN_SPACING, one with an emitter beyond MAX_SPREAD
BatchConfigs ==
    { RandSpaced, RandCrowded, AddTo(_get_fol_geometry, NoiseTowards),
      [i \in 1..NEmitters |-> <<2500 * i, 0>>] }

BatchInputs == UNION { [1..k -> BatchConfigs] : k \in 1..MaxBatch }

\* (U.max() - U.min()).item() of a configuration (line 139)
BatchDepths == {1, 4}

BTInit ==
    /\ CCIdle
    /\ EvoIdle
    /\ IPIdle
    /\ RepairIdle
    /\ HardShellIdle
    /\ SimIdle
    /\ LateIdle
    /\ bt_batch \in BatchInputs
    /\ bt_depths \in [BatchConfigs -> BatchDepths]
    /\ bt_out = <<>>
    /\ bt_pc = "call"

CalculateWellDepthBatch ==
    /\ bt_pc = "call"
    /\ bt_out' = calculate_well_depth_batch(WellDepthsOf(bt_batch, bt_depths),
                                            Penalties(bt_batch))
    /\ bt_pc' = "ret"
    /\ UNCHANGED <<bt_batch, bt_depths, ccVars, evoVars, ipVars, lateVars, repairVars, hsVars,
                   simVars>>

BTNext == CalculateWellDepthBatch

SpecBatch == BTInit /\ [][BTNext]_vars

(***************************************************************************)
(* HardShellOptimizer (hardshell_optimizer.py): optimize_from_fol, the     *)
(* gradient step and the projection of every iteration                     *)
(***************************************************************************)
\* MIN_SPACING = 0.012 m of hardshell_optimizer.py
HS_MIN_SPACING == 1200
\* MAX_PERTURBATION = 0.005 m
MAX_PERTURBATION == 500
\* for _ in range(5)
PROJECT_PASSES == 5
\* if iterations_since_improvement > 150
\* one stagnant iteration less
HS_EARLY_STOP_less == 150 - 1

HS_EARLY_STOP == 150

\* `iterations` of the short runs
MaxIterations == 2
\* `iterations` of the run whose gradient vanishes
LongIterations == 153

\* the argument `frequency` of the constructor: 40 kHz (the default), and
\* 100 kHz, whose ring radius is below MIN_SPACING
Frequencies == {40000, 100000}

\* r1 = 2.5 * self.wavelength = 2.5 * 343.0 / frequency, in length units
RingRadius(frequency) == RoundDiv(5 * 34300000, 2 * frequency)

\* _get_perfect_fol: the centre and ring 1 (60 degrees apart), truncated to
\* n_emitters rows; cos and sin of the multiples of 60 degrees are 1, 1/2 and
\* 0.866
_get_perfect_fol(frequency) ==
    LET r1 == RingRadius(frequency)
        h  == RoundDiv(r1, 2)
        s  == RoundDiv(866 * r1, 1000)
    IN  SubSeq(<< <<0, 0>>, <<r1, 0>>, <<h, s>>, <<0 - h, s>>,
                  <<0 - r1, 0>>, <<0 - h, 0 - s>>, <<h, 0 - s>> >>, 1, NEmitters)

\* check_hard_shell_collision(positions)[0]
check_hard_shell_collision(pos) ==
    \E i \in 1..Len(pos) : \E j \in (i + 1)..Len(pos) :
        Dist(pos[i], pos[j]) < HS_MIN_SPACING

RECURSIVE MaxDeviation(_, _, _)
\* deviations.max() over rows i..Len(pos)
MaxDeviation(pos, ref, i) ==
    IF i > Len(pos) THEN 0
    ELSE LET rest == MaxDeviation(pos, ref, i + 1)
             d    == Dist(pos[i], ref[i])
         IN  IF d > rest THEN d ELSE rest

\* check_perturbation_limit(positions)[0]: max_deviation > MAX_PERTURBATION
check_perturbation_limit(pos, ref) == MaxDeviation(pos, ref, 1) > MAX_PERTURBATION

\* scale = torch.clamp(deviation_mags / MAX_PERTURBATION, max=1.0) applied to
\* one coordinate d of a deviation of magnitude mag: deviation * scale
ClipOf(d, mag) ==
    IF mag >= MAX_PERTURBATION THEN d ELSE RoundDiv(d * mag, MAX_PERTURBATION)

\* positions.data = self.fol_reference + deviations * scale (lines 299-302)
ClipToReference(pos, ref) ==
    [i \in 1..Len(pos) |->
        LET mag == Dist(pos[i], ref[i])
        IN  <<ref[i][1] + ClipOf(pos[i][1] - ref[i][1], mag),
              ref[i][2] + ClipOf(pos[i][2] - ref[i][2], mag)>>]

\* direction * push of lines 313-314 for one coordinate difference d
HSPushOf(d, dist) == RoundDiv(d * (HS_MIN_SPACING - dist) * 10, 20 * dist + 2)

\* lines 313-317: positions[j] and positions[k] moved apart in place
HSPushApart(pos, j, k) ==
    LET dist == Dist(pos[j], pos[k])
        px   == HSPushOf(pos[j][1] - pos[k][1], dist)
        py   == HSPushOf(pos[j][2] - pos[k][2], dist)
    IN  [pos EXCEPT ![j] = <<pos[j][1] + px, pos[j][2] + py>>,
                    ![k] = <<pos[k][1] - px, pos[k][2] - py>>]

RECURSIVE HSPass(_, _, _, _)
\* one pass of the pair loops of lines 306-317, from pair (j, k) on
HSPass(pos, moved, j, k) ==
    IF j > Len(pos) THEN [pos |-> pos, moved |-> moved]
    ELSE IF k > Len(pos) THEN HSPass(pos, moved, j + 1, j + 2)
    ELSE IF Dist(pos[j], pos[k]) < HS_MIN_SPACING
            THEN HSPass(HSPushApart(pos, j, k), TRUE, j, k + 1)
            ELSE HSPass(pos, moved, j, k + 1)

RECURSIVE HSPushLoop(_, _)
\* for _ in range(5): ... if not moved: break
HSPushLoop(pos, pass) ==
    IF pass >= PROJECT_PASSES THEN pos
    ELSE LET r == HSPass(pos, FALSE, 1, 2)
         IN  IF r.moved THEN HSPushLoop(r.pos, pass + 1) ELSE r.pos

RECURSIVE HSPushTrace(_, _)
\* the passes of `for _ in range(5)` that are run, each with the
\* configuration it starts from and the one it leaves
HSPushTrace(pos, pass) ==
    IF pass >= PROJECT_PASSES THEN <<>>
    ELSE LET r == HSPass(pos, FALSE, 1, 2)
         IN  IF r.moved THEN <<[start |-> pos, end |-> r.pos]>> \o HSPushTrace(r.pos, pass + 1)
             ELSE <<[start |-> pos, end |-> r.pos]>>

\* the projection of lines 297-320
Project(pos, ref) == HSPushLoop(ClipToReference(pos, ref), 0)

\* the update of optimizer.step(): Adam moves a coordinate by about
\* learning_rate at most (0.0003 m = 30, 0.01 m = 1000), by less when the
\* gradient shrinks, and not at all where the gradient vanishes
OneMoved(i, delta) == [e \in 1..NEmitters |-> IF e = i THEN delta ELSE <<0, 0>>]

StepNone == [e \in 1..NEmitters |-> <<0, 0>>]

AdamSteps(rate) ==
    CASE rate = "default" -> {StepNone, OneMoved(1, <<30, -30>>), OneMoved(2, <<-30, 0>>)}
      [] rate = "large"   -> {OneMoved(1, <<200, 0>>), OneMoved(2, <<-1000, 0>>),
                              OneMoved(1, <<1000, 1000>>)}
      [] rate = "zero"    -> {StepNone}

\* float('nan'), a score that is not a number: total_score is a sum of float
\* products and is nan as soon as one term is
NaN == -999999

\* the comparison written not (a <= b)
Greater_unordered(a, b) == ~(a # NaN /\ b # NaN /\ a <= b)

\* the comparison a > b of two floats: False when either side is nan
Greater(a, b) == a # NaN /\ b # NaN /\ a > b

\* fol_metrics['total_score']
FolScore == 2

\* metrics['total_score'] of calculate_field_quality(positions): a function of
\* the configuration, the score of the reference at the reference
Scores(pos, ref) == IF pos = ref THEN {FolScore} ELSE {NaN, 1, 3, 4}

\* the runs: <<frequency, range of the optimizer steps, iterations>>
HSRuns ==
    (Frequencies \X {"default", "large"} \X {0, MaxIterations})
    \cup { <<40000, "zero", LongIterations>> }

HSInit ==
    /\ CCIdle
    /\ EvoIdle
    /\ IPIdle
    /\ RepairIdle
    /\ BatchIdle
    /\ SimIdle
    /\ LateIdle
    /\ \E run \in HSRuns :
          /\ fol_reference = _get_perfect_fol(run[1])
          /\ hs_rate = run[2]
          /\ iterations = run[3]
    /\ hs_pc = "start"
    /\ HardShellFresh

\* the loop goes on to iteration i + 1, or is left
NextIteration ==
    /\ hs_i' = hs_i + 1
    /\ hs_pc' = IF hs_i + 1 < iterations THEN "step" ELSE "done"

\* lines 236-256: positions = self.fol_reference.clone(), the best is the
\* reference
HSStart ==
    /\ hs_pc = "start"
    /\ hs_positions' = fol_reference
    /\ best_score' = FolScore
    /\ best_positions' = fol_reference
    /\ iterations_since_improvement' = 0
    /\ hs_i' = 0
    /\ hs_pc' = IF iterations > 0 THEN "step" ELSE "done"
    /\ UNCHANGED <<ccVars, evoVars, ipVars, lateVars, repairVars, batchVars, simVars,
                   fol_reference, hs_rate, iterations, hs_score, hs_history>>

\* a stored reference to the working tensor itself: it shows every in-place
\* update of the working tensor
StoredAfterUpdate_alias(stored, working) == working

\* what a stored tensor holds after the working tensor `positions` was
\* updated in place: the best is kept as fol_reference.clone() (line 255) or
\* positions.clone().detach() (line 332) and has its own storage
StoredAfterUpdate(stored, working) == stored

\* lines 262-294: loss.backward(), optimizer.step() updating `positions` in
\* place, then the metrics of the positions the step produced
HSGradientStep ==
    /\ hs_pc = "step"
    /\ \E step \in AdamSteps(hs_rate) :
          /\ hs_positions' = AddTo(hs_positions, step)
          /\ hs_score' \in Scores(hs_positions', fol_reference)
    /\ best_positions' = StoredAfterUpdate(best_positions, hs_positions')
    /\ hs_pc' = "project"
    /\ UNCHANGED <<ccVars, evoVars, ipVars, lateVars, repairVars, batchVars, simVars,
                   fol_reference, hs_rate, iterations, hs_i, best_score,
                   iterations_since_improvement, hs_history>>

\* the best is replaced whatever the checks say
AcceptsBest_any(collision, exceeded, current_score, best) ==
    Greater(current_score, best)

\* if not collision and not exceeded: if current_score > best_score
AcceptsBest(collision, exceeded, current_score, best) ==
    ~collision /\ ~exceeded /\ Greater(current_score, best)

\* lines 296-369: projection, validity check, best tracking, history, early
\* stopping
HSProject ==
    /\ hs_pc = "project"
    /\ \E projected \in {Project(hs_positions, fol_reference)} :
       \E collision \in {check_hard_shell_collision(projected)},
          exceeded \in {check_perturbation_limit(projected, fol_reference)} :
          /\ hs_positions' = projected
          /\ IF AcceptsBest(collision, exceeded, hs_score, best_score)
                THEN /\ best_score' = hs_score
                     /\ best_positions' = projected
                     /\ iterations_since_improvement' = 0
                ELSE /\ iterations_since_improvement' = iterations_since_improvement + 1
                     /\ best_positions' = StoredAfterUpdate(best_positions, projected)
                     /\ UNCHANGED best_score
          /\ hs_history' = Append(hs_history,
                [iteration |-> hs_i, score |-> hs_score,
                 valid |-> (~collision /\ ~exceeded), best_score |-> best_score'])
    /\ IF iterations_since_improvement' > HS_EARLY_STOP
          THEN hs_pc' = "done" /\ hs_i' = hs_i
          ELSE NextIteration
    /\ UNCHANGED <<ccVars, evoVars, ipVars, lateVars, repairVars, batchVars, simVars,
                   fol_reference, hs_rate, iterations, hs_score>>

HSNext == HSStart \/ HSGradientStep \/ HSProject

SpecHardShell == HSInit /\ [][HSNext]_vars

(***************************************************************************)
(* The emitter arrays of the interactive simulators: AcousticSimulator     *)
(* with its MainWindow (interactive_3d_simulator.py), UltimateSimulator    *)
(* (ultimate_simulator.py), ParticleSimulator                              *)
(* (particle_physics_simulator.py).  An emitter is <<x, y, z>> in length   *)
(* units; the presets are computed for frequency = 40000 (wavelength       *)
(* 857.5 units)                                                            *)
(***************************************************************************)
\* 'fol_7', and init_flower_of_life: the centre and six emitters at
\* r1 = 2.5 wavelengths
PresetFol7 ==
    << <<0, 0, 0>>, <<2144, 0, 0>>, <<1072, 1857, 0>>, <<-1072, 1857, 0>>,
       <<-2144, 0, 0>>, <<-1072, -1857, 0>>, <<1072, -1857, 0>> >>

\* the ring of 'fol_19' at r2 = 5 wavelengths, 30 degrees apart
PresetRing2 ==
    << <<4288, 0, 0>>, <<3713, 2144, 0>>, <<2144, 3713, 0>>, <<0, 4288, 0>>,
       <<-2144, 3713, 0>>, <<-3713, 2144, 0>>, <<-4288, 0, 0>>,
       <<-3713, -2144, 0>>, <<-2144, -3713, 0>>, <<0, -4288, 0>>,
       <<2144, -3713, 0>>, <<3713, -2144, 0>> >>

\* 'fibonacci': 13 emitters on the golden-angle spiral
PresetFibonacci ==
    << <<0, 0, 0>>, <<-614, 562, 0>>, <<103, -1173, 0>>, <<877, 1144, 0>>,
       <<-1639, -290, 0>>, <<1570, -999, 0>>, <<-529, 1969, 0>>,
       <<-1015, -1954, 0>>, <<2212, 808, 0>>, <<-2308, 953, 0>>,
       <<1116, -2384, 0>>, <<826, 2634, 0>>, <<-2495, -1446, 0>> >>

\* 'square': the 4 x 4 grid of spacing 2 wavelengths
PresetSquare ==
    << <<-2572, -2572, 0>>, <<-2572, -857, 0>>, <<-2572, 857, 0>>,
       <<-2572, 2572, 0>>, <<-857, -2572, 0>>, <<-857, -857, 0>>,
       <<-857, 857, 0>>, <<-857, 2572, 0>>, <<857, -2572, 0>>,
       <<857, -857, 0>>, <<857, 857, 0>>, <<857, 2572, 0>>,
       <<2572, -2572, 0>>, <<2572, -857, 0>>, <<2572, 857, 0>>,
       <<2572, 2572, 0>> >>

\* 'hexagonal': the centre and six emitters at 2 wavelengths
PresetHexagonal ==
    << <<0, 0, 0>>, <<1715, 0, 0>>, <<858, 1485, 0>>, <<-857, 1485, 0>>,
       <<-1715, 0, 0>>, <<-858, -1485, 0>>, <<858, -1485, 0>> >>

\* the default branch: a single emitter
PresetSingle == << <<0, 0, 0>> >>

\* the presets of UltimateSimulator.reset_to_preset by name; every other name
\* takes the default branch
UltimatePreset(preset_name) ==
    CASE preset_name = "fol_7"     -> PresetFol7
      [] preset_name = "fol_19"    -> PresetFol7 \o PresetRing2
      [] preset_name = "fibonacci" -> PresetFibonacci
      [] preset_name = "square"    -> PresetSquare
      [] preset_name = "hexagonal" -> PresetHexagonal
      [] OTHER                     -> PresetSingle

\* the presets of ParticleSimulator.reset_to_preset
ParticlePreset(preset_name) ==
    CASE preset_name = "fol_7"     -> PresetFol7
      [] preset_name = "fol_19"    -> PresetFol7 \o PresetRing2
      [] preset_name = "fibonacci" -> PresetFibonacci
      [] OTHER                     -> PresetSingle

\* the names given to reset_to_preset
PresetNames == {"fol_7", "fol_19", "fibonacci", "square", "hexagonal", "single"}

\* largest array an emitter is added to
MaxEmitterCount == 8

\* the positions given to add_emitter: np.random.uniform(-0.03, 0.03) for the
\* three coordinates (add_random_emitter), the click position with z = 0
RandomPositions == { <<1500, -2000, 500>>, <<0, 0, 0>> }

ClickPositions == { <<1500, -2000, 0>>, <<0, 0, 0>> }

\* the argument `index` of UltimateSimulator.remove_emitter: the default -1,
\* the first emitter, and an index beyond either end of every array
RemoveIndices == {-1, 0, 100, -100}

\* torch.zeros(n)
Zeros(n) == [i \in 1..n |-> 0]

\* ['#00ff00'] * n
Green(n) == [i \in 1..n |-> "#00ff00"]

\* s[:-1]
DropLast(s) == SubSeq(s, 1, Len(s) - 1)

\* s[:index] + s[index+1:] for 0 <= index < len(s)
\* a slice bound of python: negative bounds count from the end, bounds
\* outside the sequence are clipped
SliceBound(i, n) ==
    LET k == IF i < 0 THEN i + n ELSE i
    IN  IF k < 0 THEN 0 ELSE IF k > n THEN n ELSE k

\* torch.cat([s[:index], s[index+1:]])
CatAround(s, index) ==
    SubSeq(s, 1, SliceBound(index, Len(s)))
        \o SubSeq(s, SliceBound(index + 1, Len(s)) + 1, Len(s))

\* list.pop(index): the entry at index (from the end when negative) is
\* removed, IndexError is raised and the list is left as it is when there is
\* none
Pop(s, index) ==
    IF index >= Len(s) \/ index < -Len(s) THEN s
    ELSE LET k == IF index < 0 THEN index + Len(s) ELSE index
         IN  SubSeq(s, 1, k) \o SubSeq(s, k + 2, Len(s))

\* if index == -1: index = len(self.emitter_positions) - 1
ResolveIndex(index, n) == IF index = -1 THEN n - 1 ELSE index

\* one emitter of an array is followed through the operations: the marks of
\* a sequence of n entries set for an array whose emitter k is the marked one
\* (none when k = 0)
Marks(n, k) == [i \in 1..n |-> i = k]

\* the emitter of a freshly set array of n that is followed: the first or the
\* last
MarkChoices(n) == {1, n}

\* an entry of the sequence is marked
Marked(marks) == \E i \in 1..Len(marks) : marks[i]

\* a new emitter becomes the marked one when no entry is marked
NewMark(marks) ==
    ~(Marked(marks.positions) \/ Marked(marks.phases) \/ Marked(marks.colors))

\* the arguments of set_emitters(positions, phases=None) besides the preset
SetPositions == { <<<<0, 0, 0>>, <<1500, -2000, 500>>>> }

Ramp(n) == [i \in 1..n |-> 10 * i]

PhaseArguments(n) ==
    { [given |-> FALSE, value |-> <<>>] }
        \cup { [given |-> TRUE, value |-> Ramp(m)] : m \in {n, n + 1} }

\* the simulator after construction: AcousticSimulator.__init__ sets
\* self.emitter_positions = [] and self.emitter_phases = [], the other two
\* constructors call reset_to_preset('fol_7')
SimInit ==
    /\ CCIdle
    /\ EvoIdle
    /\ IPIdle
    /\ RepairIdle
    /\ BatchIdle
    /\ HardShellIdle
    /\ LateIdle
    /\ sim \in {"interactive", "ultimate", "particle"}
    /\ emitter_positions = IF sim = "interactive" THEN <<>> ELSE PresetFol7
    /\ emitter_phases = Zeros(Len(emitter_positions))
    /\ emitter_colors = IF sim = "ultimate" THEN Green(Len(PresetFol7)) ELSE <<>>
    /\ \E k \in MarkChoices(Len(emitter_positions)) :
          emitter_marks = [positions |-> Marks(Len(emitter_positions), k),
                           phases |-> Marks(Len(emitter_phases), k),
                           colors |-> Marks(Len(emitter_colors), k)]

\* MainWindow.init_flower_of_life, called by MainWindow.__init__ and by
\* reset_fol: set_emitters(positions) with phases = None
AcousticResetFol ==
    /\ sim = "interactive"
    /\ emitter_positions' = PresetFol7
    /\ emitter_phases' = Zeros(Len(PresetFol7))
    /\ \E k \in MarkChoices(Len(PresetFol7)) :
          emitter_marks' = [emitter_marks EXCEPT !.positions = Marks(Len(PresetFol7), k),
                                                  !.phases = Marks(Len(PresetFol7), k)]
    /\ UNCHANGED <<ccVars, evoVars, ipVars, lateVars, repairVars, batchVars, hsVars, sim,
                   emitter_colors>>

\* AcousticSimulator.set_emitters(positions, phases)
AcousticSetEmitters ==
    /\ sim = "interactive"
    /\ \E positions \in SetPositions :
       \E phases_arg \in PhaseArguments(Len(positions)) :
          /\ emitter_positions' = positions
          /\ emitter_phases' = IF phases_arg.given THEN phases_arg.value
                                                   ELSE Zeros(Len(positions))
          /\ \E k \in MarkChoices(Len(positions)) :
                emitter_marks' =
                    [emitter_marks EXCEPT !.positions = Marks(Len(positions), k),
                                          !.phases = Marks(Len(emitter_phases'), k)]
    /\ UNCHANGED <<ccVars, evoVars, ipVars, lateVars, repairVars, batchVars, hsVars, sim,
                   emitter_colors>>

\* AcousticSimulator.add_emitter(position)
AcousticAddEmitter ==
    /\ sim = "interactive"
    /\ Len(emitter_positions) < MaxEmitterCount
    /\ \E position \in RandomPositions :
       \E id \in {NewMark(emitter_marks)} :
          IF Len(emitter_positions) = 0
             THEN /\ emitter_positions' = <<position>>
                  /\ emitter_phases' = Zeros(1)
                  /\ emitter_marks' = [emitter_marks EXCEPT !.positions = <<id>>,
                                                        !.phases = <<id>>]
             ELSE /\ emitter_positions' = emitter_positions \o <<position>>
                  /\ emitter_phases' = emitter_phases \o Zeros(1)
                  /\ emitter_marks' = [emitter_marks EXCEPT !.positions = @ \o <<id>>,
                                                        !.phases = @ \o <<id>>]
    /\ UNCHANGED <<ccVars, evoVars, ipVars, lateVars, repairVars, batchVars, hsVars, sim,
                   emitter_colors>>

\* AcousticSimulator.remove_emitter: if len(self.emitter_positions) > 0
AcousticRemoveEmitter ==
    /\ sim = "interactive"
    /\ IF Len(emitter_positions) > 0
          THEN /\ emitter_positions' = DropLast(emitter_positions)
               /\ emitter_phases' = DropLast(emitter_phases)
               /\ emitter_marks' = [emitter_marks EXCEPT !.positions = DropLast(@),
                                                     !.phases = DropLast(@)]
          ELSE UNCHANGED <<emitter_positions, emitter_phases, emitter_marks>>
    /\ UNCHANGED <<ccVars, evoVars, ipVars, lateVars, repairVars, batchVars, hsVars, sim,
                   emitter_colors>>

\* UltimateSimulator.reset_to_preset(preset_name)
UltimateResetToPreset ==
    /\ sim = "ultimate"
    /\ \E preset_name \in PresetNames :
       \E positions \in {UltimatePreset(preset_name)} :
          /\ emitter_positions' = positions
          /\ emitter_phases' = Zeros(Len(positions))
          /\ emitter_colors' = Green(Len(positions))
          /\ \E k \in MarkChoices(Len(positions)) :
                emitter_marks' = [positions |-> Marks(Len(positions), k),
                                  phases |-> Marks(Len(positions), k),
                                  colors |-> Marks(Len(positions), k)]
    /\ UNCHANGED <<ccVars, evoVars, ipVars, lateVars, repairVars, batchVars, hsVars, sim>>

\* UltimateSimulator.add_emitter(x, y, z=0)
UltimateAddEmitter ==
    /\ sim = "ultimate"
    /\ Len(emitter_positions) < MaxEmitterCount
    /\ \E pos \in ClickPositions :
          emitter_positions' = emitter_positions \o <<pos>>
    /\ emitter_phases' = emitter_phases \o Zeros(1)
    /\ emitter_colors' = Append(emitter_colors, "#00ff00")
    /\ \E id \in {NewMark(emitter_marks)} :
          emitter_marks' = [positions |-> emitter_marks.positions \o <<id>>,
                          phases |-> emitter_marks.phases \o <<id>>,
                          colors |-> Append(emitter_marks.colors, id)]
    /\ UNCHANGED <<ccVars, evoVars, ipVars, lateVars, repairVars, batchVars, hsVars, sim>>

\* UltimateSimulator.remove_emitter(index=-1): if len(self.emitter_positions) > 1
UltimateRemoveEmitter ==
    /\ sim = "ultimate"
    /\ \E given \in RemoveIndices :
       \E index \in {ResolveIndex(given, Len(emitter_positions))} :
          IF Len(emitter_positions) > 1
             THEN /\ emitter_positions' = CatAround(emitter_positions, index)
                  /\ emitter_phases' = CatAround(emitter_phases, index)
                  /\ emitter_colors' = Pop(emitter_colors, index)
                  /\ emitter_marks' = [positions |-> CatAround(emitter_marks.positions, index),
                                     phases |-> CatAround(emitter_marks.phases, index),
                                     colors |-> Pop(emitter_marks.colors, index)]
             ELSE UNCHANGED <<emitter_positions, emitter_phases, emitter_colors,
                              emitter_marks>>
    /\ UNCHANGED <<ccVars, evoVars, ipVars, lateVars, repairVars, batchVars, hsVars, sim>>

\* ParticleSimulator.reset_to_preset(preset_name)
ParticleResetToPreset ==
    /\ sim = "particle"
    /\ \E preset_name \in PresetNames :
       \E positions \in {ParticlePreset(preset_name)} :
          /\ emitter_positions' = positions
          /\ emitter_phases' = Zeros(Len(positions))
          /\ \E k \in MarkChoices(Len(positions)) :
                emitter_marks' =
                    [emitter_marks EXCEPT !.positions = Marks(Len(positions), k),
                                          !.phases = Marks(Len(positions), k)]
    /\ UNCHANGED <<ccVars, evoVars, ipVars, lateVars, repairVars, batchVars, hsVars, sim,
                   emitter_colors>>

\* ParticleSimulator.add_emitter(x, y)
ParticleAddEmitter ==
    /\ sim = "particle"
    /\ Len(emitter_positions) < MaxEmitterCount
    /\ \E pos \in ClickPositions :
          emitter_positions' = emitter_positions \o <<pos>>
    /\ emitter_phases' = emitter_phases \o Zeros(1)
    /\ \E id \in {NewMark(emitter_marks)} :
          emitter_marks' = [emitter_marks EXCEPT !.positions = @ \o <<id>>,
                                            !.phases = @ \o <<id>>]
    /\ UNCHANGED <<ccVars, evoVars, ipVars, lateVars, repairVars, batchVars, hsVars, sim,
                   emitter_colors>>

\* ParticleSimulator.remove_emitter: if len(self.emitter_positions) > 1
ParticleRemoveEmitter ==
    /\ sim = "particle"
    /\ IF Len(emitter_positions) > 1
          THEN /\ emitter_positions' = DropLast(emitter_positions)
               /\ emitter_phases' = DropLast(emitter_phases)
               /\ emitter_marks' = [emitter_marks EXCEPT !.positions = DropLast(@),
                                                     !.phases = DropLast(@)]
          ELSE UNCHANGED <<emitter_positions, emitter_phases, emitter_marks>>
    /\ UNCHANGED <<ccVars, evoVars, ipVars, lateVars, repairVars, batchVars, hsVars, sim,
                   emitter_colors>>

SimNext ==
    \/ AcousticResetFol
    \/ AcousticSetEmitters
    \/ AcousticAddEmitter
    \/ AcousticRemoveEmitter
    \/ UltimateResetToPreset
    \/ UltimateAddEmitter
    \/ UltimateRemoveEmitter
    \/ ParticleResetToPreset
    \/ ParticleAddEmitter
    \/ ParticleRemoveEmitter

SpecSim == SimInit /\ [][SimNext]_vars

(***************************************************************************)
(* PhaseOnlyOptimizer.optimize_phases (phase_optimizer.py): the emitters   *)
(* stay at the Flower of Life positions, Adam moves the phases.  One phase *)
(* unit is 2 pi / 628, about 0.01 rad.                                     *)
(***************************************************************************)
\* 2 * np.pi
TwoPi == 628

PH_EARLY_STOP == 150

\* torch.fmod(x, m): the remainder has the sign of x
FMod(x, m) == IF x >= 0 THEN x % m ELSE -((-x) % m)

\* lines 223-227: fmod by 2 pi, then 2 pi added to the negative components
Normalise(ph) ==
    [e \in 1..Len(ph) |->
        LET m == FMod(ph[e], TwoPi) IN IF m < 0 THEN m + TwoPi ELSE m]

PhaseMoved(i, delta) == [e \in 1..NEmitters |-> IF e = i THEN delta ELSE 0]

\* phases a draw of torch.rand(n) * 2 * pi can give, all in [0, 2 pi)
SpreadPhases == [e \in 1..NEmitters |-> 100 * e]

InitialPhases(rate) ==
    CASE rate = "default" -> {SpreadPhases,
                              [e \in 1..NEmitters |-> IF e = 1 THEN TwoPi - 1 ELSE 100 * e]}
      [] rate = "large"   -> {SpreadPhases}
      [] rate = "zero"    -> {SpreadPhases}

\* the update of optimizer.step(): Adam moves a phase by about learning_rate
\* (0.01 rad = 1, 10 rad = 1000), and not at all where the gradient vanishes
PhaseSteps(rate) ==
    CASE rate = "default" -> {Zeros(NEmitters), PhaseMoved(1, 1), PhaseMoved(2, -1)}
      [] rate = "large"   -> {PhaseMoved(1, 1000), PhaseMoved(2, -1000)}
      [] rate = "zero"    -> {Zeros(NEmitters)}

\* symmetric_metrics['total_score']
SymmetricScore == 2

\* metrics['total_score'] of calculate_field_quality(phases): a function of
\* the phases
PhaseScores(ph) ==
    IF ph = Zeros(NEmitters) THEN {SymmetricScore}
    ELSE IF ph = SpreadPhases THEN {1}
    ELSE {NaN, 1, 3, 4}

\* the runs: <<range of the optimizer steps, iterations>>
PhRuns == ({"default", "large"} \X {0, MaxIterations}) \cup { <<"zero", LongIterations>> }

PhInit ==
    /\ CCIdle
    /\ EvoIdle
    /\ IPIdle
    /\ RepairIdle
    /\ BatchIdle
    /\ HardShellIdle
    /\ SimIdle
    /\ ArrayIdle
    /\ TrialIdle
    /\ \E run \in PhRuns :
          /\ ph_rate = run[1]
          /\ ph_iterations = run[2]
    /\ ph_pc = "start"
    /\ PhaseFresh

\* lines 194-212: the symmetric baseline is the first best, the phases start
\* at random
PhStart ==
    /\ ph_pc = "start"
    /\ phases' \in InitialPhases(ph_rate)
    /\ ph_best_score' = SymmetricScore
    /\ best_phases' = Zeros(NEmitters)
    /\ ph_since_improvement' = 0
    /\ ph_i' = 0
    /\ ph_pc' = IF ph_iterations > 0 THEN "loop" ELSE "done"
    /\ UNCHANGED <<ccVars, evoVars, ipVars, repairVars, batchVars, hsVars, simVars,
                   arrayVars, trialVars, ph_rate, ph_iterations, ph_score, ph_history>>

\* lines 219-294, one iteration: the phases are normalised, Adam steps, the
\* stepped phases are scored, the best is tracked, a history record is
\* appended, the loop stops early
PhIteration ==
    /\ ph_pc = "loop"
    /\ \E step \in PhaseSteps(ph_rate), normal \in {Normalise(phases)} :
          /\ phases' = [e \in 1..Len(normal) |-> normal[e] + step[e]]
          /\ ph_score' \in PhaseScores(phases')
    /\ IF Greater(ph_score', ph_best_score)
          THEN /\ ph_best_score' = ph_score'
               /\ best_phases' = phases'
               /\ ph_since_improvement' = 0
          ELSE /\ ph_since_improvement' = ph_since_improvement + 1
               /\ UNCHANGED <<ph_best_score, best_phases>>
    /\ ph_history' = Append(ph_history,
          [iteration |-> ph_i, score |-> ph_score', best_score |-> ph_best_score'])
    /\ IF ph_since_improvement' > PH_EARLY_STOP
          THEN ph_pc' = "done" /\ ph_i' = ph_i
          ELSE /\ ph_i' = ph_i + 1
               /\ ph_pc' = IF ph_i + 1 < ph_iterations THEN "loop" ELSE "done"
    /\ UNCHANGED <<ccVars, evoVars, ipVars, repairVars, batchVars, hsVars, simVars,
                   arrayVars, trialVars, ph_rate, ph_iterations>>

PhNext == PhStart \/ PhIteration

\* the two gradient drivers, optimize_from_fol and optimize_phases
GradientInit == HSInit \/ PhInit

GradientNext == HSNext \/ PhNext

SpecGradient == GradientInit /\ [][GradientNext]_vars

(***************************************************************************)
(* RobustnessTest._get_random_array (robustness_test.py): n_emitters       *)
(* positions drawn in the square of +-40 mm, a draw being kept when it is  *)
(* at least 12 mm from the positions kept so far.                          *)
(***************************************************************************)
\* MIN_SPACING = 0.012 of _get_random_array
RA_MIN_SPACING == 1200

\* MAX_ATTEMPTS = 1000 of _get_random_array
RA_MAX_ATTEMPTS == 1000

MaxArrayEmitters == 3

\* 1000 * cos and 1000 * sin of the multiples of 30 degrees
CosTable == <<1000, 866, 500, 0, -500, -866, -1000, -866, -500, 0, 500, 866>>

SinTable == <<0, 500, 866, 1000, 866, 500, 0, -500, -866, -1000, -866, -500>>

\* lines 116-120: the fallback position of slot i of n, at the angle
\* (i / n) * 2 pi and the radius 25 mm + (i / n) * 15 mm
FallbackPosition(i, n) ==
    LET radius == 2500 + RoundDiv(1500 * i, n)
        twelfth == (12 * i) \div n
    IN  <<RoundDiv(radius * CosTable[twelfth + 1], 1000),
          RoundDiv(radius * SinTable[twelfth + 1], 1000)>>

\* values of torch.rand(2) * 0.08 - 0.04
RandomDraws == { <<0, 0>>, <<1000, 0>>, <<-3000, 0>>, <<3000, 3000>> }

\* lines 101-106: new_pos is at least MIN_SPACING from every kept position
SpacedFromAll(new_pos, positions) ==
    \A k \in 1..Len(positions) : ~(Dist(new_pos, positions[k]) < RA_MIN_SPACING)

RAInit ==
    /\ CCIdle
    /\ EvoIdle
    /\ IPIdle
    /\ RepairIdle
    /\ BatchIdle
    /\ HardShellIdle
    /\ SimIdle
    /\ PhaseIdle
    /\ TrialIdle
    /\ ra_n \in 1..MaxArrayEmitters
    /\ ra_pc = "loop"
    /\ ra_i = 0
    /\ ra_attempts = 0
    /\ ra_positions = <<>>

\* the for loop goes on to slot i + 1 with attempts = 0, or is left and the
\* stacked positions are returned
NextSlot ==
    /\ ra_i' = ra_i + 1
    /\ ra_attempts' = 0
    /\ ra_pc' = IF ra_i + 1 < ra_n THEN "loop" ELSE "done"

\* lines 96-112, one pass of the while loop: a draw, kept when it is spaced
\* from all kept positions or the list is empty, counted as an attempt
\* otherwise
RADraw ==
    /\ ra_pc = "loop"
    /\ ra_attempts < RA_MAX_ATTEMPTS
    /\ \E new_pos \in RandomDraws :
          IF SpacedFromAll(new_pos, ra_positions) \/ Len(ra_positions) = 0
             THEN /\ ra_positions' = Append(ra_positions, new_pos)
                  /\ NextSlot
             ELSE /\ ra_attempts' = ra_attempts + 1
                  /\ UNCHANGED <<ra_pc, ra_i, ra_positions>>
    /\ UNCHANGED <<ccVars, evoVars, ipVars, repairVars, batchVars, hsVars, simVars,
                   phaseVars, trialVars, ra_n>>

\* lines 114-120: after MAX_ATTEMPTS failed draws the fallback position is
\* appended
RAFallback ==
    /\ ra_pc = "loop"
    /\ ra_attempts >= RA_MAX_ATTEMPTS
    /\ ra_positions' = Append(ra_positions, FallbackPosition(ra_i, ra_n))
    /\ NextSlot
    /\ UNCHANGED <<ccVars, evoVars, ipVars, repairVars, batchVars, hsVars, simVars,
                   phaseVars, trialVars, ra_n>>

RANext == RADraw \/ RAFallback

SpecArray == RAInit /\ [][RANext]_vars

(***************************************************************************)
(* gpu_monte_carlo_mega (gpu_accelerated_suite.py): the well depths of     *)
(* n_trials random geometries, computed in batches of 100.                 *)
(***************************************************************************)
\* batch_size = 100
BATCH_SIZE == 100

MaxTrialBatches == 2

\* values of the argument n_trials: one trial, half a batch, whole batches,
\* whole batches and a half
TrialCounts ==
    {1, BATCH_SIZE \div 2}
        \cup { b * BATCH_SIZE : b \in 1..MaxTrialBatches }
        \cup { b * BATCH_SIZE + BATCH_SIZE \div 2 : b \in 1..(MaxTrialBatches - 1) }

\* (U.max() - U.min()) * 1e6 of the random geometry of trial idx, a positive
\* number
TrialDepth(random, idx) == IF random = "flat" THEN 5 ELSE 1 + (idx % 3)

\* n_batches = n_trials // batch_size
NBatches(trials) == trials \div BATCH_SIZE

MCInit ==
    /\ CCIdle
    /\ EvoIdle
    /\ IPIdle
    /\ RepairIdle
    /\ BatchIdle
    /\ HardShellIdle
    /\ SimIdle
    /\ PhaseIdle
    /\ ArrayIdle
    /\ n_trials \in TrialCounts
    /\ mc_rng \in {"flat", "varied"}
    /\ mc_pc = "start"
    /\ mc_idx = 0
    /\ mc_well_depths = <<>>
    /\ mc_writes = <<>>

\* lines 196-215: well_depths = torch.zeros(n_trials), the baseline, the
\* number of batches
MCStart ==
    /\ mc_pc = "start"
    /\ mc_well_depths' = Zeros(n_trials)
    /\ mc_writes' = Zeros(n_trials)
    /\ mc_pc' = IF NBatches(n_trials) > 0 THEN "loop" ELSE "statistics"
    /\ UNCHANGED <<ccVars, evoVars, ipVars, repairVars, batchVars, hsVars, simVars,
                   phaseVars, arrayVars, n_trials, mc_rng, mc_idx>>

\* lines 217-241, one iteration of the inner loop: idx = batch * batch_size
\* + i, a random geometry, well_depths[idx] = its well depth; after the last
\* iteration of the last batch the statistics follow
MCTrial ==
    /\ mc_pc = "loop"
    /\ mc_well_depths' = [mc_well_depths EXCEPT ![mc_idx + 1] = TrialDepth(mc_rng, mc_idx)]
    /\ mc_writes' = [mc_writes EXCEPT ![mc_idx + 1] = @ + 1]
    /\ mc_idx' = mc_idx + 1
    /\ mc_pc' = IF mc_idx + 1 < NBatches(n_trials) * BATCH_SIZE THEN "loop" ELSE "statistics"
    /\ UNCHANGED <<ccVars, evoVars, ipVars, repairVars, batchVars, hsVars, simVars,
                   phaseVars, arrayVars, n_trials, mc_rng>>

MCNext == MCStart \/ MCTrial

SpecMonteCarlo == MCInit /\ [][MCNext]_vars

\* the two push-apart loops, of _repair_geometry and of optimize_from_fol
PushInit == RGInit \/ HSInit

PushNext == RGNext \/ HSNext

SpecPush == PushInit /\ [][PushNext]_vars

\* the drivers that keep a best-ever configuration: the evolutionary ones and
\* optimize_from_fol
DriversInit == Init \/ HSInit

DriversNext == Next \/ HSNext

SpecDrivers == DriversInit /\ [][DriversNext]_vars

(***************************************************************************)
(* Properties                                                              *)
(***************************************************************************)
\* the constraints stated on the geometry itself
ClosePairs(pos) ==
    { pr \in (1..Len(pos)) \X (1..Len(pos)) :
        pr[1] < pr[2] /\ Dist(pos[pr[1]], pos[pr[2]]) < MIN_SPACING }

TooFar(pos) == \E i \in 1..Len(pos) : Norm(pos[i]) > MAX_SPREAD

Feasible(pos) == ClosePairs(pos) = {} /\ ~TooFar(pos)

RECURSIVE SumShortfall(_, _)
SumShortfall(S, pos) ==
    IF S = {} THEN 0
    ELSE LET pr == CHOOSE x \in S : TRUE
         IN  (MIN_SPACING - Dist(pos[pr[1]], pos[pr[2]])) + SumShortfall(S \ {pr}, pos)

Farthest(pos) ==
    CHOOSE d \in { Norm(pos[i]) : i \in 1..Len(pos) } :
        \A i \in 1..Len(pos) : Norm(pos[i]) <= d

Started == pc \notin {"idle", "start"}

Fallbacks(r) == { AddTo(_get_fol_geometry, z) : z \in FallbackNoise(r) }

\* C1: in the history of one evolutionary run, best_ever of every record is
\* >= best_ever of the record before it.
C1_BestEverNonDecreasing ==
    \A k \in 1..(Len(history) - 1) : history[k + 1].best_ever >= history[k].best_ever

\* a run whose best_ever stayed, then rose twice in consecutive generations
C1_Witness ==
    /\ Len(history) >= 3
    /\ history[1].best_ever = fol_depth
    /\ history[2].best_ever > history[1].best_ever
    /\ history[3].best_ever > history[2].best_ever

\* C2: once the population is initialised, at the start of every generation
\* (and up to the return) it holds exactly population_size individuals.
C2_PopulationSize ==
    pc \in {"evaluate", "reproduce", "finish", "done"}
        => Len(population) = population_size

\* a generation starts after a reproduction from a generation that had
\* invalid individuals
C2_Witness ==
    /\ pc = "evaluate"
    /\ gen >= 1
    /\ Len(elite) >= 1
    /\ Len(history) = gen
    /\ history[gen].best_ever > fol_depth
    /\ Len(population) = population_size

\* C3: every elite of run_constrained_evolutionary is an individual of the
\* generation that passed check_constraints (penalty 0).
C3_ElitesValid ==
    (opt = "constrained" /\ pc = "reproduce") =>
        \A k \in 1..Len(elite) :
            /\ check_constraints(elite[k]).penalty = 0
            /\ \E i \in 1..Len(population) : population[i] = elite[k] /\ valid_mask[i]

\* an elite was selected from a generation with more valid individuals than
\* population_size // 5 and with invalid ones
C3_Witness ==
    /\ opt = "constrained"
    /\ pc = "reproduce"
    /\ Len(elite) >= 1
    /\ Count(valid_mask) > NElite(population_size)
    /\ \E i \in 1..Len(valid_mask) : ~valid_mask[i]

\* C4: the configuration run_constrained_evolutionary returns satisfies the
\* constraints: no pair closer than MIN_SPACING, no emitter beyond MAX_SPREAD,
\* and the final check_constraints reports valid.
C4_ReturnedValid ==
    (opt = "constrained" /\ pc = "done") =>
        (final_valid /\ Feasible(best_ever_positions))

\* a run returns a population member after a generation without any valid
\* individual
C4_Witness ==
    /\ opt = "constrained"
    /\ pc = "done"
    /\ final_valid
    /\ best_ever_positions # _get_fol_geometry
    /\ \E k \in 1..Len(history) : history[k].valid_count = 0

\* C5: best_ever never falls below the fitness of the reference geometry; the
\* best positions are the reference geometry with its fitness, or the
\* positions recorded with the last new best, whose fitness is best_ever and
\* which is a member of the population of the generation that found it.
C5_NotBelowReference ==
    Started =>
        /\ best_ever >= fol_depth
        /\ \/ /\ best_geometries = <<>>
              /\ best_ever = fol_depth
              /\ best_ever_positions = _get_fol_geometry
           \/ /\ best_geometries # <<>>
              /\ best_geometries[Len(best_geometries)].positions = best_ever_positions
              /\ best_geometries[Len(best_geometries)].well_depth = best_ever
              /\ history[best_geometries[Len(best_geometries)].generation + 1].best_fitness
                    = best_ever
        /\ (pc = "reproduce" /\ generations_since_improvement = 0)
              => \E i \in 1..Len(population) : population[i] = best_ever_positions

\* a run returns a fitness above the reference after two new bests
C5_Witness ==
    /\ pc = "done"
    /\ Len(best_geometries) >= 2
    /\ best_ever > fol_depth

\* C6: no generation is executed once generations_since_improvement is above
\* the limit of 200, whichever path the generation before took.
C6_StopsOnStagnation ==
    pc = "evaluate" => generations_since_improvement <= EARLY_STOP

\* C7: reproduction is never entered after a generation without a valid
\* individual, and never with an empty elite set.
C7_NoReproductionWithoutElite ==
    (opt = "constrained" /\ pc = "reproduce") =>
        (Count(valid_mask) > 0 /\ Len(elite) > 0)

\* C8: _initialize_valid_population terminates and returns exactly
\* population_size individuals; the list grows by one per slot, by a valid
\* attempt made before 100 attempts failed or by one fallback after exactly
\* 100 failed attempts.
C8_InitTerminatesFull ==
    /\ [](ip_pc # "idle" =>
            /\ Len(ip_population) = ip_slot
            /\ ip_slot <= ip_size
            /\ attempts <= MAX_ATTEMPTS)
    /\ [](ip_pc = "done" =>
            /\ Len(ip_population) = ip_size
            /\ ip_population \in InitialPopulations(ip_size, IPRng))
    /\ [][ip_population' # ip_population =>
            /\ ip_slot' = ip_slot + 1
            /\ \E x \in RandAttempts(IPRng) \cup Fallbacks(IPRng) :
                  /\ ip_population' = Append(ip_population, x)
                  /\ \/ attempts < MAX_ATTEMPTS /\ x \in RandAttempts(IPRng)
                        /\ Feasible(x)
                     \/ attempts = MAX_ATTEMPTS /\ x \in Fallbacks(IPRng)]_vars
    /\ <>(ip_pc = "done")

\* a call returned a full population holding a valid random configuration
\* and an invalid fallback
C8_Witness ==
    /\ ip_pc = "done"
    /\ ip_size = MaxInitPopulation
    /\ Len(ip_population) = ip_size
    /\ \E i \in 1..ip_size : ip_population[i] \in RandAttempts(IPRng)
    /\ \E i \in 1..ip_size :
          ip_population[i] \in Fallbacks(IPRng) /\ ~Feasible(ip_population[i])

\* C9: check_constraints returns valid exactly when the penalty is 0, exactly
\* when no pair is closer than MIN_SPACING and no emitter is beyond
\* MAX_SPREAD; the penalty is the weight times the summed shortfalls of the
\* close pairs plus the weight times the excess of the farthest emitter.
C9_ValidIffNoViolation ==
    cc_pc = "ret" =>
        /\ cc_out.valid <=> (cc_out.penalty = 0)
        /\ cc_out.valid <=> Feasible(cc_pos)
        /\ cc_out.penalty =
              CONSTRAINT_PENALTY * SumShortfall(ClosePairs(cc_pos), cc_pos)
              + (IF TooFar(cc_pos)
                    THEN CONSTRAINT_PENALTY * (Farthest(cc_pos) - MAX_SPREAD)
                    ELSE 0)

\* a configuration with two close pairs, whose first emitter is inside the
\* spread and whose last is outside, was checked
C9_Witness ==
    /\ cc_pc = "ret"
    /\ Len(cc_pos) = 3
    /\ Cardinality(ClosePairs(cc_pos)) >= 1
    /\ Norm(cc_pos[1]) <= MAX_SPREAD
    /\ Norm(cc_pos[3]) > MAX_SPREAD
    /\ ~cc_out.valid

TwoEmitterInputs == [1..2 -> CCPoints]

\* C10 as claimed: for two emitters the penalty is non-increasing in their
\* distance below MIN_SPACING and zero from MIN_SPACING on.
C10_PenaltyOfDistanceOnly ==
    (cc_pc = "ret" /\ Len(cc_pos) = 2) =>
        LET d == Dist(cc_pos[1], cc_pos[2])
        IN  /\ d >= MIN_SPACING => cc_out.penalty = 0
            /\ \A q \in TwoEmitterInputs :
                  (d < MIN_SPACING /\ Dist(q[1], q[2]) <= d)
                      => check_constraints(q).penalty >= cc_out.penalty

\* C10 amended: the same for two emitters that both lie within MAX_SPREAD of
\* the origin.
C10_PenaltyMonotoneInsideSpread ==
    (cc_pc = "ret" /\ Len(cc_pos) = 2 /\ ~TooFar(cc_pos)) =>
        LET d == Dist(cc_pos[1], cc_pos[2])
        IN  /\ d >= MIN_SPACING => cc_out.penalty = 0
            /\ \A q \in TwoEmitterInputs :
                  (~TooFar(q) /\ d < MIN_SPACING /\ Dist(q[1], q[2]) <= d)
                      => check_constraints(q).penalty >= cc_out.penalty

\* two emitters inside the spread, closer than MIN_SPACING, and another pair
\* closer still with a strictly larger penalty
C10_Witness ==
    /\ cc_pc = "ret"
    /\ Len(cc_pos) = 2
    /\ ~TooFar(cc_pos)
    /\ Dist(cc_pos[1], cc_pos[2]) < MIN_SPACING
    /\ cc_out.penalty > 0
    /\ \E q \in TwoEmitterInputs :
          /\ ~TooFar(q)
          /\ Dist(q[1], q[2]) < Dist(cc_pos[1], cc_pos[2])
          /\ check_constraints(q).penalty > cc_out.penalty

\* C11: on a configuration that satisfies minimum spacing and maximum spread
\* _repair_geometry returns a configuration equal to its argument, and the
\* caller's tensor keeps its value.
C11_RepairIdentityOnValid ==
    [][(rg_pc = "call" /\ rg_pc' = "ret" /\ Feasible(rg_positions)) =>
          (rg_pos' = rg_positions /\ rg_positions' = rg_positions)]_vars

\* a valid configuration with a pair exactly MIN_SPACING apart and an emitter
\* exactly MAX_SPREAD from the centre was repaired
C11_Witness ==
    /\ rg_pc = "ret"
    /\ Feasible(rg_positions)
    /\ Len(rg_positions) >= 3
    /\ \E i, j \in 1..Len(rg_positions) :
          Dist(rg_positions[i], rg_positions[j]) = MIN_SPACING
    /\ \E i \in 1..Len(rg_positions) : Norm(rg_positions[i]) = MAX_SPREAD

\* C12: two emitters at the same point are at least the minimum spacing
\* apart after the push-apart passes.
C12_CoincidentPushedApart ==
    (rg_pc = "ret" /\ Len(rg_positions) = 2 /\ rg_positions[1] = rg_positions[2])
        => Dist(rg_pos[1], rg_pos[2]) >= MIN_SPACING

\* C13: every emitter of the configuration returned by _repair_geometry is
\* within MAX_SPREAD of the origin.
C13_RepairedInsideSpread ==
    rg_pc = "ret" => \A i \in 1..Len(rg_pos) : Norm(rg_pos[i]) <= MAX_SPREAD

\* C14: element b of the vector calculate_well_depth_batch returns is the
\* well depth of configuration b minus the penalty check_constraints gives
\* for configuration b alone, whatever else is in the batch and wherever b
\* stands in it.
C14_BatchIsPerIndividual ==
    bt_pc = "ret" =>
        /\ Len(bt_out) = Len(bt_batch)
        /\ \A b \in 1..Len(bt_batch) :
              bt_out[b] = bt_depths[bt_batch[b]] - check_constraints(bt_batch[b]).penalty
        /\ \A b, c \in 1..Len(bt_batch) :
              bt_batch[b] = bt_batch[c] => bt_out[b] = bt_out[c]

\* a full batch was evaluated in which a valid configuration follows an
\* invalid one and a configuration occurs twice
C14_Witness ==
    /\ bt_pc = "ret"
    /\ Len(bt_batch) = MaxBatch
    /\ Feasible(bt_batch[MaxBatch])
    /\ ~Feasible(bt_batch[1])
    /\ bt_batch[1] = bt_batch[2]
    /\ bt_out[1] < bt_depths[bt_batch[1]]
    /\ bt_out[MaxBatch] = bt_depths[bt_batch[MaxBatch]]

\* the number of generations whose loop body has been executed: the loop
\* variable, plus one inside the body after the record of the generation is
\* written and after the break of early stopping
Executed ==
    CASE pc \in {"idle", "start", "evaluate"} -> gen
      [] pc \in {"reproduce", "error"} -> gen + 1
      [] OTHER -> IF gen < generations THEN gen + 1 ELSE gen

\* C15: the history of one evolutionary run is append-only with exactly one
\* record per executed generation: after g executed generations, those that
\* re-initialised the population and the one that stops early included, it
\* holds g records whose generation fields are 0..g-1 in order, and a step
\* either leaves the history alone or appends one record to it
C15_HistoryAppendOnly ==
    /\ [](/\ Len(history) = Executed
          /\ \A k \in 1..Len(history) : history[k].generation = k - 1)
    /\ [][\/ history' = history
          \/ /\ pc = "evaluate"
             /\ Len(history') = Len(history) + 1
             /\ SubSeq(history', 1, Len(history)) = history]_vars

\* a finished constrained run whose first generation re-initialised the
\* population and whose last generation found valid individuals
C15_Witness ==
    /\ opt = "constrained"
    /\ pc = "done"
    /\ Len(history) >= 3
    /\ history[1].valid_count = 0
    /\ history[Len(history)].valid_count > 0

\* a projection of optimize_from_fol has been executed and the next gradient
\* step has not
Projected == hs_pc \in {"step", "done"} /\ Len(hs_history) >= 1

\* C16: after the projection step of every iteration of optimize_from_fol
\* every emitter is at a distance of at most MAX_PERTURBATION from its
\* reference position, whatever position the gradient step produced
C16_ProjectedInsidePerturbation ==
    Projected =>
        \A e \in 1..Len(hs_positions) :
            Dist(hs_positions[e], fol_reference[e]) <= MAX_PERTURBATION

\* C17: best_positions is replaced only by an iteration whose projected
\* configuration has no pair closer than MIN_SPACING and no emitter beyond
\* MAX_PERTURBATION from the reference, and it is replaced by that
\* configuration; so for a collision-free reference the best configuration,
\* the returned one included, has no collision and no exceeded perturbation
C17_BestOnlyValid ==
    /\ [][(hs_pc # "start" /\ best_positions' # best_positions) =>
             /\ hs_pc = "project"
             /\ best_positions' = hs_positions'
             /\ ~check_hard_shell_collision(hs_positions')
             /\ ~check_perturbation_limit(hs_positions', fol_reference)]_vars
    /\ []((hs_pc \in {"step", "project", "done"}
             /\ ~check_hard_shell_collision(fol_reference)) =>
             /\ ~check_hard_shell_collision(best_positions)
             /\ ~check_perturbation_limit(best_positions, fol_reference))

\* a finished run from a collision-free reference that replaced the best
\* configuration in one iteration and ended another one on a projected
\* configuration beyond the perturbation limit, whose score was higher
C17_Witness ==
    /\ hs_pc = "done"
    /\ ~check_hard_shell_collision(fol_reference)
    /\ best_positions # fol_reference
    /\ best_positions # hs_positions
    /\ check_perturbation_limit(hs_positions, fol_reference)
    /\ hs_score > best_score

\* C18: an emitter array never becomes empty: after any sequence of
\* add_emitter, remove_emitter and preset-reset operations on a simulator the
\* number of emitters is at least 1: every operation that changes the
\* simulator leaves at least one emitter
C18_EmitterArrayNeverEmpty ==
    [][sim # "none" => Len(emitter_positions') >= 1]_vars

\* C19: elites survive unchanged: in every generation that performs
\* reproduction each elite individual, a row of that generation's
\* population, is row k of the next population with identical coordinates
\* (the first len(elite) rows), and the elite itself is not modified by the
\* crossover, mutation and repair that create the children
C19_ElitesSurvive ==
    [][(pc = "reproduce" /\ pc' \in {"evaluate", "finish"}) =>
         /\ Len(population') >= Len(elite)
         /\ \A k \in 1..Len(elite) :
               /\ population'[k] = elite[k]
               /\ \E i \in 1..Len(population) : population[i] = elite[k]
         /\ elite' = elite]_vars

\* a population produced by reproduction: its first row is the first elite,
\* and one of the other rows is a child that is none of the elites
C19_Witness ==
    /\ pc \in {"evaluate", "finish"}
    /\ gen >= 1
    /\ Len(elite) >= 1
    /\ population[1] = elite[1]
    /\ \E k \in (Len(elite) + 1)..Len(population) :
          \A j \in 1..Len(elite) : population[k] # elite[j]

\* the indices of the valid individuals of the population
ValidIndices ==
    LET feasible == { c \in Members(population) : Feasible(c) }
    IN  { i \in 1..Len(population) : population[i] \in feasible }

\* C20: in every generation of run_constrained_evolutionary that reproduces
\* the elite has min(population_size // 5, number of valid individuals)
\* rows: distinct valid individuals of the population, none of the valid
\* individuals left out having a higher fitness than a selected one (all
\* valid individuals when fewer than population_size // 5 are valid)
C20_EliteIsBestValid ==
    (opt = "constrained" /\ pc = "reproduce") =>
        LET valid == ValidIndices
        IN  /\ Len(elite) = IF Cardinality(valid) < NElite(population_size)
                               THEN Cardinality(valid)
                               ELSE NElite(population_size)
            /\ \E s \in [1..Len(elite) -> valid] :
                  /\ \A k, l \in 1..Len(elite) : s[k] = s[l] => k = l
                  /\ \A k \in 1..Len(elite) : elite[k] = population[s[k]]
                  /\ \A j \in valid \ { s[k] : k \in 1..Len(elite) } :
                        \A k \in 1..Len(elite) :
                            constrained_fitness[s[k]] >= constrained_fitness[j]

\* a generation with population_size // 5 = 2 and a single valid individual:
\* the elite is that individual
C20_Witness ==
    /\ opt = "constrained"
    /\ pc = "reproduce"
    /\ NElite(population_size) >= 2
    /\ Cardinality(ValidIndices) = 1
    /\ Len(elite) = 1
    /\ Feasible(elite[1])

\* C21: a history record of run_constrained_evolutionary has valid_count = 0
\* if and only if its generation took the re-initialisation path (no
\* reproduction), and in such a record best_fitness and mean_fitness are 0
\* while best_ever keeps its previous value
C21_InfeasibilityInHistory ==
    [][(opt = "constrained" /\ pc = "evaluate") =>
         LET record == history'[Len(history')]
         IN  /\ record.valid_count = 0 <=> pc' # "reproduce"
             /\ record.valid_count = 0 =>
                   /\ record.best_fitness = 0
                   /\ record.mean_fitness = 0
                   /\ record.best_ever = best_ever
                   /\ best_ever' = best_ever]_vars

\* C22: when the score of an iteration of optimize_from_fol or of
\* optimize_phases is NaN, best_score and the stored best are unchanged,
\* the stagnation counter goes up by one, a history record is appended and
\* the loop goes on (it ends only by its iteration count or by early stopping)
C22_NaNScoreKeepsBest ==
    [][/\ (hs_pc = "project" /\ hs_score = NaN) =>
            /\ best_score' = best_score
            /\ best_positions' = best_positions
            /\ iterations_since_improvement' = iterations_since_improvement + 1
            /\ Len(hs_history') = Len(hs_history) + 1
            /\ hs_history'[Len(hs_history')].score = NaN
            /\ hs_history'[Len(hs_history')].best_score = best_score
            /\ \/ hs_pc' = "step"
               \/ /\ hs_pc' = "done"
                  /\ \/ hs_i + 1 >= iterations
                     \/ iterations_since_improvement' > HS_EARLY_STOP
       /\ (ph_pc = "loop" /\ ph_score' = NaN) =>
            /\ ph_best_score' = ph_best_score
            /\ best_phases' = best_phases
            /\ ph_since_improvement' = ph_since_improvement + 1
            /\ Len(ph_history') = Len(ph_history) + 1
            /\ ph_history'[Len(ph_history')].score = NaN
            /\ ph_history'[Len(ph_history')].best_score = ph_best_score
            /\ \/ ph_pc' = "loop"
               \/ /\ ph_pc' = "done"
                  /\ \/ ph_i + 1 >= ph_iterations
                     \/ ph_since_improvement' > PH_EARLY_STOP]_vars

\* a NaN score was recorded by optimize_phases and the loop goes on
C22_Witness ==
    /\ ph_pc = "loop"
    /\ Len(ph_history) > 0
    /\ ph_history[Len(ph_history)].score = NaN
    /\ ph_since_improvement > 0

PhaseInRange(ph) == \A e \in 1..Len(ph) : ph[e] >= 0 /\ ph[e] <= TwoPi

\* C23: every phase vector that optimize_phases scores (the phases after the
\* step of an iteration), stores as best_phases or returns has all its
\* components in [0, 2 pi]
C23_PhasesStayInRange ==
    /\ PhaseInRange(phases)
    /\ PhaseInRange(best_phases)

\* C24: the best-ever snapshot (best_ever_positions of
\* run_constrained_evolutionary, best_positions of optimize_from_fol) is a
\* copy of its own: once stored it is changed by no later generation or
\* iteration, until a step stores a strictly better valid candidate in its
\* place
C24_BestSnapshotKept ==
    [][/\ (opt = "constrained" /\ pc # "start"
             /\ <<best_ever, best_ever_positions>>' # <<best_ever, best_ever_positions>>) =>
            /\ pc = "evaluate"
            /\ best_ever' > best_ever
            /\ \E i \in 1..Len(population) :
                  /\ best_ever_positions' = population[i]
                  /\ valid_mask'[i]
                  /\ constrained_fitness'[i] = best_ever'
       /\ (hs_pc # "start" /\ <<best_score, best_positions>>' # <<best_score, best_positions>>) =>
            /\ hs_pc = "project"
            /\ Greater(hs_score, best_score)
            /\ best_score' = hs_score
            /\ best_positions' = hs_positions'
            /\ ~check_hard_shell_collision(best_positions')
            /\ ~check_perturbation_limit(best_positions', fol_reference)]_vars

\* optimize_from_fol stored a new best in one iteration and went through a
\* later iteration, whose working configuration is another one, without
\* replacing it
C24_Witness ==
    /\ hs_pc \in {"step", "done"}
    /\ best_positions # fol_reference
    /\ iterations_since_improvement >= 1
    /\ hs_positions # best_positions
    /\ Len(hs_history) >= 2

\* some pair of the configuration is closer than `spacing`
SomePairCloser(pos, spacing) ==
    \E i, j \in 1..Len(pos) : i < j /\ Dist(pos[i], pos[j]) < spacing

\* the passes t of a push-apart loop: at least one and at most `limit` of
\* them, each starting where the one before ended, every pass but the last
\* starting with a pair closer than `spacing`, the last one starting with
\* none unless it is pass number `limit`
BoundedPushLoop(t, limit, spacing) ==
    /\ Len(t) >= 1
    /\ Len(t) <= limit
    /\ \A k \in 1..Len(t) :
          /\ k < Len(t) => SomePairCloser(t[k].start, spacing) /\ t[k + 1].start = t[k].end
          /\ ~SomePairCloser(t[k].start, spacing) => k = Len(t) /\ t[k].end = t[k].start
          /\ k = Len(t) => ~SomePairCloser(t[k].start, spacing) \/ k = limit

\* C25: the push-apart loop of _repair_geometry runs at most 10 passes (that
\* of optimize_from_fol at most 5), ends after the first pass in which no
\* pair was closer than MIN_SPACING, and the call or iteration completes
\* with the configuration of the last pass even when it still violates
C25_PushLoopBounded ==
    [][/\ rg_pc = "call" =>
            LET t == RepairTrace(rg_positions, 0)
            IN  /\ BoundedPushLoop(t, 10, MIN_SPACING)
                /\ RepairLoop(rg_positions, 0) = t[Len(t)].end
                /\ rg_pos' = FixSpread(t[Len(t)].end)
                /\ rg_pc' = "ret"
       /\ hs_pc = "project" =>
            LET t == HSPushTrace(ClipToReference(hs_positions, fol_reference), 0)
            IN  /\ BoundedPushLoop(t, 5, HS_MIN_SPACING)
                /\ hs_positions' = t[Len(t)].end
                /\ hs_pc' \in {"step", "done"}]_vars

\* _repair_geometry returned after all 10 passes with a pair still closer
\* than MIN_SPACING
C25_Witness ==
    /\ rg_pc = "ret"
    /\ Len(RepairTrace(rg_positions, 0)) = 10
    /\ SomePairCloser(rg_pos, MIN_SPACING)

\* one iteration of a gradient driver, from the values before (best, since,
\* h, i) to the values after it (best2, since2, h2): the counter is reset
\* exactly when a new best is recorded and goes up by one otherwise, one
\* history record is appended whose best_score is not below the one before,
\* and the loop is left exactly when the counter exceeds 150 or the
\* iterations are used up
StagnationStep(best, best2, since, since2, h, h2, i, n, left) ==
    /\ IF Greater(best2, best)
          THEN since2 = 0
          ELSE best2 = best /\ since2 = since + 1
    /\ Len(h2) = Len(h) + 1
    /\ h2[Len(h2)].best_score = best2
    /\ Len(h) > 0 => h[Len(h)].best_score <= best2
    /\ left <=> (since2 > 150 \/ i + 1 >= n)

\* C26: optimize_from_fol and optimize_phases execute at most `iterations`
\* iterations, reset the stagnation counter to 0 exactly in the iterations
\* that record a new best and add one otherwise, end at the first iteration
\* after which the counter exceeds 150, and the best_score of their history
\* never decreases
C26_StagnationEndsLoop ==
    /\ [](/\ Len(hs_history) <= iterations
          /\ Len(ph_history) <= ph_iterations
          /\ iterations_since_improvement <= 150 + 1
          /\ ph_since_improvement <= 150 + 1
          /\ hs_pc \in {"step", "project"} => iterations_since_improvement <= 150
          /\ ph_pc = "loop" => ph_since_improvement <= 150)
    /\ [][/\ hs_pc = "project" =>
               StagnationStep(best_score, best_score', iterations_since_improvement,
                              iterations_since_improvement', hs_history, hs_history',
                              hs_i, iterations, hs_pc' = "done")
          /\ hs_pc = "step" => UNCHANGED <<best_score, iterations_since_improvement, hs_history>>
          /\ ph_pc = "loop" =>
               StagnationStep(ph_best_score, ph_best_score', ph_since_improvement,
                              ph_since_improvement', ph_history, ph_history',
                              ph_i, ph_iterations, ph_pc' = "done")]_vars

\* optimize_from_fol stopped early: 151 iterations without a new best, fewer
\* iterations run than asked for
C26_Witness ==
    /\ hs_pc = "done"
    /\ Len(hs_history) = 150 + 1
    /\ Len(hs_history) < iterations
    /\ iterations_since_improvement = 150 + 1

\* C27: _get_random_array returns exactly n_emitters positions of which
\* every two are at least 12 mm apart, on every path, the fallback after
\* 1000 failed attempts included
C27_RandomArraySpaced ==
    ra_pc = "done" =>
        /\ Len(ra_positions) = ra_n
        /\ \A j, k \in 1..Len(ra_positions) :
              j < k => Dist(ra_positions[j], ra_positions[k]) >= RA_MIN_SPACING

\* the sequences of the simulator have one length and their entries for the
\* followed emitter sit at one index
Paired ==
    /\ Len(emitter_phases) = Len(emitter_positions)
    /\ emitter_marks.phases = emitter_marks.positions
    /\ sim = "ultimate" =>
          /\ Len(emitter_colors) = Len(emitter_positions)
          /\ emitter_marks.colors = emitter_marks.positions

\* the sequence without its entry k
Without(s, k) == SubSeq(s, 1, k - 1) \o SubSeq(s, k + 1, Len(s))

\* a step of UltimateSimulator that shortens the array either sets a preset
\* or takes one index k out of the positions, the phases and the colours
RemovesOneEmitter ==
    (sim = "ultimate" /\ Len(emitter_positions') < Len(emitter_positions)) =>
        \/ \E preset_name \in PresetNames : emitter_positions' = UltimatePreset(preset_name)
        \/ \E k \in 1..Len(emitter_positions) :
              /\ emitter_positions' = Without(emitter_positions, k)
              /\ emitter_phases' = Without(emitter_phases, k)
              /\ emitter_colors' = Without(emitter_colors, k)
              /\ emitter_marks' = [positions |-> Without(emitter_marks.positions, k),
                                   phases |-> Without(emitter_marks.phases, k),
                                   colors |-> Without(emitter_marks.colors, k)]

\* C28: after any sequence of set/reset, add_emitter and
\* remove_emitter operations the phases (and the colours of UltimateSimulator)
\* have the length of the positions, entry i of each belongs to the same
\* emitter, and remove_emitter(index) removes the same emitter from every
\* sequence or from none
C28_PhasesStayPaired ==
    /\ [](sim # "none" => Paired)
    /\ [][RemovesOneEmitter]_vars

\* C29: in optimize_from_fol the configuration whose total_score is taken
\* (hs_positions when the iteration's projection starts) is the one whose
\* validity is checked and recorded in the history record, and, when a new
\* best is stored, the one stored in best_positions
C29_ScoreOfStoredBest ==
    [][hs_pc = "project" =>
          /\ hs_history'[Len(hs_history')].score = hs_score
          /\ hs_positions' = hs_positions
          /\ best_score' # best_score =>
                /\ best_score' = hs_score
                /\ best_positions' = hs_positions]_vars

\* C30: for every n_trials >= 1, when gpu_monte_carlo_mega computes its
\* statistics each of the n_trials slots of well_depths has been written
\* exactly once, with the well depth of a random geometry, and none holds
\* its initial value 0
C30_EveryTrialEvaluated ==
    mc_pc = "statistics" =>
        /\ Len(mc_well_depths) = n_trials
        /\ \A slot \in 1..n_trials :
              /\ mc_writes[slot] = 1
              /\ mc_well_depths[slot] = TrialDepth(mc_rng, slot - 1)
              /\ mc_well_depths[slot] # 0

====
